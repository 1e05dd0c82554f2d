------------------------- MODULE AzureBrowserProofs -------------------------
(***************************************************************************)
(* For any accounts, hierarchy, pages and number of pending chains, with   *)
(* stale clicks and with the browser opened again while it is open: whose  *)
(* a prompt is, whose listing the view shows, and that a retry repeats     *)
(* what failed.  Without those two: that the lists, the path and the       *)
(* entries nest, that signed out stays signed out, and, up to the first    *)
(* change of the provider's sessions and after it, that all listed is of   *)
(* the identity on display and that the change is honoured.                *)
(***************************************************************************)
EXTENDS AzureBrowserInvariants, TLAPS

-----------------------------------------------------------------------------
(* Prompts.                                                                *)

NoNewPrompt == \A t \in Slots : chains'[t].at = "prompt" => chains[t].at = "prompt"

LEMMA ViewFields == DOMAIN Closed = {"mode", "open", "phase", "error", "identity",
    "tenants", "tenant", "subs", "sub", "stores", "store", "public", "path",
    "entries", "picked"}
  BY DEF Closed

LEMMA ChainFields == DOMAIN IdleChain =
    {"stage", "at", "cur", "live", "asks", "marks", "who", "of", "more"}
  BY DEF IdleChain

LEMMA OpFields == DOMAIN NoOp = {"slot", "changed"}
  BY DEF NoOp

LEMMA SupersededChains ==
    ASSUME AreChains(chains)
    PROVE  /\ AreChains(Superseded)
           /\ \A t \in Slots : Superseded[t].cur = FALSE /\ Superseded[t].at = chains[t].at
  BY ChainFields DEF AreChains, IsChain, Superseded

LEMMA EndedChains ==
    ASSUME AreChains(chains)
    PROVE  /\ AreChains(Ended)
           /\ \A t \in Slots : Ended[t].cur = FALSE /\ Ended[t].at = chains[t].at
  BY ChainFields DEF AreChains, IsChain, Ended

LEMMA RediscoverOwned ==
    ASSUME PInv, NEW s \in Slots, NEW pinned, NEW marks, Rediscover(s, pinned, marks)
    PROVE  PInv' /\ NoNewPrompt
  <1> DEFINE c == [IdleChain EXCEPT !.stage = "discover", !.at = "session", !.cur = TRUE,
                            !.marks = marks, !.who = pinned]
  <1>1. IsChain(c) /\ c.at = "session" /\ c.asks = FALSE
    BY DEF IsChain, IdleChain
  <1>2. chains' = [Superseded EXCEPT ![s] = c] /\ op' = NoOp
    BY DEF Rediscover
  <1>3. AreChains(Superseded) /\ AreChains(chains)
    BY SupersededChains DEF PInv, Shapes
  <1> HIDE DEF c
  <1>4. AreChains(chains') /\ chains'[s] = c /\ \A t \in Slots \ {s} : chains'[t] = Superseded[t]
    BY <1>1, <1>2, <1>3 DEF AreChains
  <1>5. IsView(state')
    BY ViewFields DEF Rediscover, IsView
  <1>6. PromptsAreOwned' /\ NoNewPrompt
    BY <1>1, <1>3, <1>4, SupersededChains DEF PromptsAreOwned, NoNewPrompt
  <1> QED
    BY <1>2, <1>4, <1>5, <1>6 DEF PInv, Shapes, IsOp

LEMMA LoadOwned ==
    ASSUME PInv, NEW s \in Slots, NEW c, NEW kept, NEW pending, NEW shown, NEW held,
           IsChain(c), c.at # "prompt", IsView(shown), IsOp(kept),
           c.asks => kept.slot = s,
           Load(s, c, kept, pending, shown, held)
    PROVE  PInv' /\ NoNewPrompt
  <1>1. CASE pending /\ kept = NoOp /\ shown.mode = "authenticated"
    <2>1. Rediscover(s, account, c.marks)
      BY <1>1 DEF Load
    <2> QED
      BY <2>1, RediscoverOwned
  <1>2. CASE ~(pending /\ kept = NoOp /\ shown.mode = "authenticated")
    <2> DEFINE d == [c EXCEPT !.cur = TRUE]
    <2>1. IsChain(d) /\ d.at # "prompt" /\ (d.asks => kept.slot = s)
      BY ChainFields DEF IsChain
    <2>2. chains' = [Superseded EXCEPT ![s] = d] /\ op' = kept
          /\ state' = [shown EXCEPT !.open = TRUE, !.phase = "loading", !.error = "none"]
      BY <1>2 DEF Load
    <2> HIDE DEF d
    <2>3. AreChains(Superseded) /\ AreChains(chains)
      BY SupersededChains DEF PInv, Shapes
    <2>4. AreChains(chains') /\ chains'[s] = d
          /\ \A t \in Slots \ {s} : chains'[t] = Superseded[t]
      BY <2>1, <2>2, <2>3 DEF AreChains
    <2>5. IsView(state') /\ state'.open
      BY <2>2, ViewFields DEF IsView
    <2>6. PromptsAreOwned' /\ NoNewPrompt
      BY <2>1, <2>2, <2>3, <2>4, <2>5, SupersededChains DEF PromptsAreOwned, NoNewPrompt
    <2> QED
      BY <2>2, <2>4, <2>5, <2>6 DEF PInv, Shapes
  <1> QED
    BY <1>1, <1>2

\* A reconciliation starts where no other chain may prompt.
LEMMA ReconcileOwned ==
    ASSUME PInv, NEW s \in Slots, NEW shown, NEW held, NEW pending, IsView(shown),
           \A t \in Slots \ {s} : ~(chains[t].cur /\ chains[t].asks),
           Reconcile(s, shown, held, pending)
    PROVE  PInv' /\ NoNewPrompt
  <1>1. CASE account = None
    BY <1>1, RediscoverOwned DEF Reconcile
  <1>2. CASE account # None
    <2> DEFINE d == [IdleChain EXCEPT !.stage = "reconcile", !.at = "session",
                        !.cur = TRUE, !.live = TRUE, !.who = account]
    <2>1. IsChain(d) /\ d.at = "session" /\ d.asks = FALSE
      BY DEF IsChain, IdleChain
    <2>2. chains' = [chains EXCEPT ![s] = d] /\ op' = NoOp /\ state' = shown
      BY <1>2 DEF Reconcile
    <2> HIDE DEF d
    <2>3. AreChains(chains') /\ chains'[s] = d
          /\ \A t \in Slots \ {s} : chains'[t] = chains[t]
      BY <2>1, <2>2 DEF AreChains, PInv, Shapes
    <2>4. PromptsAreOwned' /\ NoNewPrompt
      BY <2>1, <2>3 DEF PromptsAreOwned, NoNewPrompt
    <2> QED
      BY <2>2, <2>3, <2>4 DEF PInv, Shapes, IsOp
  <1> QED
    BY <1>1, <1>2

LEMMA IdleIsChain == IsChain(IdleChain) /\ IdleChain.cur = FALSE /\ IdleChain.at = "none"
  BY DEF IsChain, IdleChain

LEMMA SettleOwned ==
    ASSUME PInv, NEW s \in Slots, NEW shown, NEW held, IsView(shown),
           state.open => shown.open, Settle(s, shown, held)
    PROVE  PInv' /\ NoNewPrompt
  <1> DEFINE marked == IF chains[s].marks /\ shown.phase = "ready"
                       THEN [held EXCEPT !.fresh = "fresh"] ELSE held
  <1>1. CASE op.slot = s /\ op.changed
    <2>1. Reconcile(s, shown, marked, deferred)
      BY <1>1 DEF Settle
    <2>2. \A t \in Slots \ {s} : ~(chains[t].cur /\ chains[t].asks)
      BY <1>1 DEF PInv, PromptsAreOwned
    <2> HIDE DEF marked
    <2> QED
      BY <2>1, <2>2, ReconcileOwned
  <1>2. CASE ~(op.slot = s /\ op.changed)
    <2>1. /\ chains' = [chains EXCEPT ![s] = IdleChain] /\ state' = shown
          /\ op' = IF op.slot = s THEN NoOp ELSE op
      BY <1>2 DEF Settle
    <2>2. AreChains(chains') /\ chains'[s] = IdleChain
          /\ \A t \in Slots \ {s} : chains'[t] = chains[t]
      BY <2>1, IdleIsChain DEF AreChains, PInv, Shapes
    <2>3. PromptsAreOwned' /\ NoNewPrompt
      BY <2>1, <2>2, IdleIsChain DEF PInv, PromptsAreOwned, NoNewPrompt
    <2> QED
      BY <2>1, <2>2, <2>3 DEF PInv, Shapes, IsOp
  <1> QED
    BY <1>1, <1>2

\* Steps that leave the chains and the operation alone, or end the chains.
LEMMA ViewOwned ==
    ASSUME PInv, IsView(state'), state.open => state'.open,
           UNCHANGED << chains, op >>
    PROVE  PInv' /\ NoNewPrompt
  BY DEF PInv, Shapes, PromptsAreOwned, NoNewPrompt

LEMMA NoneCurrentOwned ==
    ASSUME PInv, IsView(state'), IsOp(op'), chains' \in {Ended, Superseded}
    PROVE  PInv' /\ NoNewPrompt
  <1>1. AreChains(chains)
    BY DEF PInv, Shapes
  <1> QED
    BY <1>1, EndedChains, SupersededChains
    DEF PInv, Shapes, PromptsAreOwned, NoNewPrompt

LEMMA SignedOutIsView == IsView(SignedOut) /\ SignedOut.open /\ IsView(Closed) /\ IsOp(NoOp)
  BY ViewFields DEF SignedOut, IsView, IsOp, Closed

LEMMA FailedIsView ==
    ASSUME NEW v, NEW kind, IsView(v)
    PROVE  IsView(Failed(v, kind)) /\ Failed(v, kind).open
  BY ViewFields DEF IsView, Failed

LEMMA SettleSignedOutOwned ==
    ASSUME PInv, NEW s \in Slots, NEW cs \in {chains, Superseded},
           SettleSignedOut(s, cs), op' \in {op, NoOp}, cs = chains => op' = op
    PROVE  PInv' /\ NoNewPrompt
  <1>1. AreChains(chains) /\ IsOp(op)
    BY DEF PInv, Shapes
  <1>2. chains' = [cs EXCEPT ![s] = IdleChain] /\ state' = SignedOut
    BY DEF SettleSignedOut
  <1>3. AreChains(chains') /\ chains'[s] = IdleChain
        /\ \A t \in Slots \ {s} : chains'[t] = cs[t]
    BY <1>1, <1>2, IdleIsChain, SupersededChains DEF AreChains
  <1>4. NoNewPrompt /\ PromptsAreOwned'
    <2>1. CASE cs = chains
      BY <2>1, <1>2, <1>3, IdleIsChain, SignedOutIsView
      DEF PInv, PromptsAreOwned, NoNewPrompt
    <2>2. CASE cs = Superseded
      BY <2>2, <1>1, <1>3, IdleIsChain, SupersededChains DEF PromptsAreOwned, NoNewPrompt
    <2> QED
      BY <2>1, <2>2
  <1> QED
    BY <1>1, <1>2, <1>3, <1>4, SignedOutIsView DEF PInv, Shapes

-----------------------------------------------------------------------------
(* The stages.                                                             *)

LEMMA AskIsChain ==
    ASSUME NEW stage, NEW asks, NEW marks, NEW who, NEW of
    PROVE  LET c == Ask(stage, asks, marks, who, of)
           IN  IsChain(c) /\ c.at = "session" /\ c.asks = asks
  BY ChainFields DEF Ask, IsChain, IdleChain

LEMMA DiscoverOwned ==
    ASSUME PInv, NEW s \in Slots, NEW asks, NEW pinned, NEW kept, NEW pending, NEW shown,
           NEW held, IsView(shown), IsOp(kept), asks => kept.slot = s,
           Discover(s, asks, pinned, kept, pending, shown, held)
    PROVE  PInv' /\ NoNewPrompt
  <1> DEFINE c == Ask("discover", asks, FALSE, pinned, Nowhere)
             h == [held EXCEPT !.retry = "discover"]
  <1>1. IsChain(c) /\ c.at # "prompt" /\ c.asks = asks
    BY ChainFields DEF Ask, IsChain, IdleChain
  <1>2. Load(s, c, kept, pending, shown, h)
    BY DEF Discover
  <1> HIDE DEF c, h
  <1> QED
    BY <1>1, <1>2, LoadOwned

LEMMA SelectTenantOwned ==
    ASSUME PInv, NEW s \in Slots, NEW tenant, NEW asks, NEW marks, NEW kept, NEW pending,
           NEW shown, IsView(shown), IsOp(kept), asks => kept.slot = s,
           SelectTenant(s, tenant, asks, marks, kept, pending, shown)
    PROVE  PInv' /\ NoNewPrompt
  <1> DEFINE v == [shown EXCEPT !.tenant = tenant, !.subs = NoList, !.sub = None,
                       !.stores = NoList, !.store = None, !.path = <<>>, !.entries = <<>>]
             c == Ask("tenant", asks, marks, account, [Nowhere EXCEPT !.tenant = tenant])
             h == [resources EXCEPT !.retry = "tenant"]
  <1>1. IsView(v)
    BY DEF IsView
  <1>2. IsChain(c) /\ c.at # "prompt" /\ c.asks = asks
    BY AskIsChain
  <1>3. Load(s, c, kept, pending, v, h)
    BY DEF SelectTenant
  <1> HIDE DEF v, c, h
  <1> QED
    BY <1>1, <1>2, <1>3, LoadOwned

LEMMA SelectSubscriptionOwned ==
    ASSUME PInv, NEW s \in Slots, NEW sub, NEW asks, NEW marks, NEW kept, NEW pending,
           NEW shown, IsView(shown), IsOp(kept), asks => kept.slot = s,
           SelectSubscription(s, sub, asks, marks, kept, pending, shown)
    PROVE  PInv' /\ NoNewPrompt
  <1> DEFINE v == [shown EXCEPT !.sub = sub, !.stores = NoList, !.store = None,
                       !.path = <<>>, !.entries = <<>>]
             c == Ask("subscription", asks, marks, account, [shown.subs.of EXCEPT !.sub = sub])
             h == [resources EXCEPT !.retry = "subscription"]
  <1>1. IsView(v)
    BY DEF IsView
  <1>2. IsChain(c) /\ c.at # "prompt" /\ c.asks = asks
    BY AskIsChain
  <1>3. Load(s, c, kept, pending, v, h)
    BY DEF SelectSubscription
  <1> HIDE DEF v, c, h
  <1> QED
    BY <1>1, <1>2, <1>3, LoadOwned

LEMMA SelectAccountOwned ==
    ASSUME PInv, NEW s \in Slots, NEW store, NEW asks, NEW kept, NEW pending,
           IsOp(kept), asks => kept.slot = s,
           SelectAccount(s, store, asks, kept, pending)
    PROVE  PInv' /\ NoNewPrompt
  <1> DEFINE v == [state EXCEPT !.store = store, !.path = <<>>, !.entries = <<>>,
                       !.picked = None]
             of == [state.stores.of EXCEPT !.store = store]
             c == Ask("account", asks, FALSE, account, of)
             h == [resources EXCEPT !.retry = "account", !.registry = {}, !.next = 0,
                       !.container = None, !.folder = None]
  <1>1. IsView(v)
    BY DEF PInv, Shapes, IsView
  <1>2. IsChain(c) /\ c.at # "prompt" /\ c.asks = asks
    <2> HIDE DEF of
    <2> QED
      BY ChainFields DEF Ask, IsChain, IdleChain
  <1>3. Load(s, c, kept, pending, v, h)
    BY DEF SelectAccount
  <1> HIDE DEF v, c, h
  <1> QED
    BY <1>1, <1>2, <1>3, LoadOwned

LEMMA LoadLocationOwned ==
    ASSUME PInv, NEW s \in Slots, NEW container, NEW folder, NEW more, NEW asks,
           NEW kept, NEW pending, IsOp(kept), asks => kept.slot = s,
           LoadLocation(s, container, folder, more, asks, kept, pending)
    PROVE  PInv' /\ NoNewPrompt
  <1> DEFINE public == state.mode = "public"
             shown == [state EXCEPT !.path = Path(container, folder)]
             held == [resources EXCEPT !.retry = "location", !.container = container,
                                       !.folder = folder]
             who == IF public THEN Anonymous ELSE account
             of == [Target EXCEPT !.container = container, !.folder = folder]
             a == Ask("location", asks, FALSE, who, of)
             c == [a EXCEPT !.at = IF public THEN "list" ELSE "session", !.more = more]
             v == IF more # 0 THEN shown ELSE [shown EXCEPT !.entries = <<>>, !.picked = None]
             h == IF more # 0 THEN held
                  ELSE [held EXCEPT !.registry = {}, !.next = 0,
                                    !.fresh = IF public THEN "never" ELSE @]
  <1>1. IsView(v)
    BY DEF PInv, Shapes, IsView
  <1>2. IsChain(a) /\ a.asks = asks
    <2> HIDE DEF who, of
    <2> QED
      BY ChainFields DEF Ask, IsChain, IdleChain
  <1> HIDE DEF a
  <1>3. IsChain(c) /\ c.at # "prompt" /\ c.asks = asks
    BY <1>2, ChainFields DEF IsChain
  <1>4. Load(s, c, kept, pending, v, h)
    BY DEF LoadLocation, a
  <1> HIDE DEF v, c, h
  <1> QED
    BY <1>1, <1>3, <1>4, LoadOwned

-----------------------------------------------------------------------------
(* The requests of the user.                                               *)

LEMMA RefreshPublicOwned ==
    ASSUME PInv, NEW s \in Slots, RefreshPublic(s)
    PROVE  PInv' /\ NoNewPrompt
  <1>1. CASE Complete(resources.container)
    <2>1. LoadLocation(s, resources.container, resources.folder, 0, FALSE, NoOp, Inherited)
      BY <1>1 DEF RefreshPublic
    <2> QED
      BY <2>1, LoadLocationOwned, SignedOutIsView
  <1>2. CASE ~Complete(resources.container)
    <2>1. state' = Failed(state, "other") /\ UNCHANGED << chains, op >>
      BY <1>2 DEF RefreshPublic
    <2> QED
      BY <2>1, FailedIsView, ViewOwned DEF PInv, Shapes
  <1> QED
    BY <1>1, <1>2

LEMMA RefreshResourcesOwned ==
    ASSUME PInv, NEW s \in Slots, RefreshResources(s)
    PROVE  PInv' /\ NoNewPrompt
  <1>1. CASE needsConnect \/ account = None
    <2>1. state' = SignedOut /\ UNCHANGED << chains, op >>
      BY <1>1 DEF RefreshResources
    <2> QED
      BY <2>1, SignedOutIsView, ViewOwned
  <1>2. CASE ~(needsConnect \/ account = None)
    <2> DEFINE v == [Closed EXCEPT !.open = TRUE, !.identity = state.identity]
    <2>1. Discover(s, FALSE, account, NoOp, Inherited, v, NoResources)
      BY <1>2 DEF RefreshResources
    <2>2. IsView(v)
      BY DEF IsView
    <2> HIDE DEF v
    <2> QED
      BY <2>1, <2>2, DiscoverOwned, SignedOutIsView
  <1> QED
    BY <1>1, <1>2

LEMMA OpenOwned ==
    ASSUME PInv, NEW s \in Slots, Open(s)
    PROVE  PInv' /\ NoNewPrompt
  <1>1. CASE RefreshPublic(s) \/ RefreshResources(s)
    BY <1>1, RefreshPublicOwned, RefreshResourcesOwned
  <1>2. CASE ~(RefreshPublic(s) \/ RefreshResources(s))
    <2>1. /\ UNCHANGED << chains, op >>
          /\ \/ state' = [state EXCEPT !.open = TRUE, !.phase = "error"]
             \/ state' = [state EXCEPT !.open = TRUE, !.phase = "ready"]
             \/ state' = SignedOut
             \/ state' = [state EXCEPT !.open = TRUE, !.phase = "ready", !.error = "none"]
      BY <1>2 DEF Open, auth
    <2>2. IsView(state') /\ state'.open
      BY <2>1, ViewFields, SignedOutIsView DEF PInv, Shapes, IsView
    <2> QED
      BY <2>1, <2>2, ViewOwned
  <1> QED
    BY <1>1, <1>2

LEMMA ConnectOwned ==
    ASSUME PInv, NEW s \in Slots, Connect(s)
    PROVE  PInv' /\ NoNewPrompt
  <1> DEFINE leaves == state.mode = "public"
             kept == [slot |-> s, changed |-> op.changed \/ deferred]
             shown == IF leaves THEN SignedOut ELSE state
             held == IF leaves THEN NoResources ELSE resources
  <1>1. Discover(s, TRUE, account, kept, FALSE, shown, held)
    BY DEF Connect
  <1>2. IsOp(kept) /\ kept.slot = s
    BY OpFields DEF IsOp
  <1>3. IsView(shown)
    BY SignedOutIsView DEF PInv, Shapes
  <1> HIDE DEF kept, shown, held
  <1> QED
    BY <1>1, <1>2, <1>3, DiscoverOwned

\* What a validated container's URL makes of the view and of the chains.
PublicChoice(s, store, container, folder, a) ==
    /\ state' = [Closed EXCEPT !.mode = "public", !.public = store, !.open = TRUE,
                     !.phase = "loading", !.path = Path(container, folder)]
    /\ chains' = [Ended EXCEPT ![s] = [a EXCEPT !.at = "list", !.cur = TRUE]]
    /\ a = Ask("location", FALSE, FALSE, Anonymous,
               [Nowhere EXCEPT !.store = store, !.container = container, !.folder = folder])

LEMMA OpenPublicChooses ==
    ASSUME NEW s \in Slots, OpenPublic(s),
           ~(chains' = Ended /\ state' = Failed([Closed EXCEPT !.mode = "public"], "other"))
    PROVE  \E store \in PublicStores, container \in Containers, folder \in OrNone(Folders) :
              \E a : PublicChoice(s, store, container, folder, a)
  BY Zenon DEF OpenPublic, PublicChoice

LEMMA OpenPublicOwned ==
    ASSUME PInv, NEW s \in Slots, OpenPublic(s)
    PROVE  PInv' /\ NoNewPrompt
  <1>1. op' = NoOp
    BY DEF OpenPublic, Forget
  <1>2. CASE chains' = Ended /\ state' = Failed([Closed EXCEPT !.mode = "public"], "other")
    <2>1. IsView(state')
      BY <1>2, FailedIsView DEF IsView
    <2> QED
      BY <1>1, <1>2, <2>1, SignedOutIsView, NoneCurrentOwned
  <1>3. ASSUME ~(chains' = Ended /\ state' = Failed([Closed EXCEPT !.mode = "public"], "other"))
        PROVE  PInv' /\ NoNewPrompt
    <2>0. PICK store \in PublicStores, container \in Containers, folder \in OrNone(Folders) :
             \E a : PublicChoice(s, store, container, folder, a)
      BY <1>3, OpenPublicChooses
    <2>1. PICK a : PublicChoice(s, store, container, folder, a)
      BY <2>0
    <2> DEFINE c == [a EXCEPT !.at = "list", !.cur = TRUE]
    <2>2. IsChain(a) /\ a.asks = FALSE
      BY <2>1, ChainFields DEF PublicChoice, Ask, IsChain, IdleChain
    <2>3. IsChain(c) /\ c.at = "list" /\ c.asks = FALSE
      BY <2>2, ChainFields DEF IsChain
    <2>4. chains' = [Ended EXCEPT ![s] = c]
      BY <2>1 DEF PublicChoice
    <2> HIDE DEF c
    <2>5. AreChains(chains)
      BY DEF PInv, Shapes
    <2>6. AreChains(chains') /\ chains'[s] = c
          /\ \A t \in Slots \ {s} : chains'[t] = Ended[t]
      BY <2>3, <2>4, <2>5, EndedChains DEF AreChains
    <2>7. PromptsAreOwned' /\ NoNewPrompt
      BY <2>3, <2>5, <2>6, EndedChains DEF PromptsAreOwned, NoNewPrompt
    <2>8. IsView(state')
      BY <2>1, ViewFields DEF PublicChoice, IsView
    <2> QED
      BY <1>1, <2>6, <2>7, <2>8, SignedOutIsView DEF PInv, Shapes
  <1> QED
    BY <1>2, <1>3

LEMMA RetryOwned ==
    ASSUME PInv, NEW s \in Slots, Retry(s)
    PROVE  PInv' /\ NoNewPrompt
  <1> DEFINE asks == state.mode = "authenticated" /\ Interactive
             kept == IF asks THEN [slot |-> s, changed |-> op.changed \/ deferred] ELSE NoOp
             pending == ~asks /\ Inherited
  <1>1. IsOp(kept) /\ (asks => kept.slot = s)
    BY OpFields DEF IsOp
  <1>2. IsView(state)
    BY DEF PInv, Shapes
  <1>3. \/ LoadLocation(s, resources.container, resources.folder, 0, asks, kept, pending)
        \/ UNCHANGED << view, chains, op, deferred >>
        \/ Discover(s, asks, account, kept, pending, state, resources)
        \/ SelectTenant(s, state.tenant, asks, FALSE, kept, pending, state)
        \/ SelectSubscription(s, state.sub, asks, FALSE, kept, pending, state)
        \/ SelectAccount(s, state.store, asks, kept, pending)
    BY Zenon DEF Retry
  <1> HIDE DEF asks, kept, pending
  <1>4. CASE LoadLocation(s, resources.container, resources.folder, 0, asks, kept, pending)
    BY <1>1, <1>4, LoadLocationOwned
  <1>5. CASE UNCHANGED << view, chains, op, deferred >>
    BY <1>2, <1>5, ViewOwned DEF view
  <1>6. CASE Discover(s, asks, account, kept, pending, state, resources)
    BY <1>1, <1>2, <1>6, DiscoverOwned
  <1>7. CASE SelectTenant(s, state.tenant, asks, FALSE, kept, pending, state)
    BY <1>1, <1>2, <1>7, SelectTenantOwned
  <1>8. CASE SelectSubscription(s, state.sub, asks, FALSE, kept, pending, state)
    BY <1>1, <1>2, <1>8, SelectSubscriptionOwned
  <1>9. CASE SelectAccount(s, state.store, asks, kept, pending)
    BY <1>1, <1>9, SelectAccountOwned
  <1> QED
    BY <1>3, <1>4, <1>5, <1>6, <1>7, <1>8, <1>9

LEMMA NoOpIsOp == IsOp(NoOp)
  BY DEF IsOp

LEMMA ChoiceOwned ==
    ASSUME PInv, NEW s \in Slots,
           \/ \E tenant \in Tenants : ChooseTenant(s, tenant)
           \/ \E sub \in Subscriptions : ChooseSubscription(s, sub)
           \/ \E store \in Stores : ChooseAccount(s, store)
    PROVE  PInv' /\ NoNewPrompt
  <1>1. IsView(state)
    BY DEF PInv, Shapes
  <1>2. ASSUME NEW tenant \in Tenants, ChooseTenant(s, tenant) PROVE PInv' /\ NoNewPrompt
    <2>1. SelectTenant(s, tenant, FALSE, FALSE, NoOp, Inherited, state)
      BY <1>2 DEF ChooseTenant
    <2> QED
      BY <1>1, <2>1, NoOpIsOp, SelectTenantOwned
  <1>3. ASSUME NEW sub \in Subscriptions, ChooseSubscription(s, sub)
        PROVE  PInv' /\ NoNewPrompt
    <2>1. SelectSubscription(s, sub, FALSE, FALSE, NoOp, Inherited, state)
      BY <1>3 DEF ChooseSubscription
    <2> QED
      BY <1>1, <2>1, NoOpIsOp, SelectSubscriptionOwned
  <1>4. ASSUME NEW store \in Stores, ChooseAccount(s, store) PROVE PInv' /\ NoNewPrompt
    <2>1. SelectAccount(s, store, FALSE, NoOp, Inherited)
      BY <1>4 DEF ChooseAccount
    <2> QED
      BY <2>1, NoOpIsOp, SelectAccountOwned
  <1> QED
    BY <1>2, <1>3, <1>4

LEMMA NavigateOwned ==
    ASSUME PInv, NEW s \in Slots, NavigateUp(s) \/ LoadMore(s)
    PROVE  PInv' /\ NoNewPrompt
  <1>1. CASE NavigateUp(s)
    <2>1. LoadLocation(s, state.path[1], None, 0, FALSE, NoOp, Inherited)
      BY <1>1 DEF NavigateUp
    <2> QED
      BY <2>1, NoOpIsOp, LoadLocationOwned
  <1>2. CASE LoadLocation(s, resources.container, resources.folder, resources.next,
                          FALSE, NoOp, Inherited)
    BY <1>2, NoOpIsOp, LoadLocationOwned
  <1>3. ASSUME NEW a, a = Ask("containers", FALSE, FALSE, account, Target),
               Load(s, [a EXCEPT !.more = resources.next], NoOp, Inherited, state, resources)
        PROVE  PInv' /\ NoNewPrompt
    <2> DEFINE c == [a EXCEPT !.more = resources.next]
    <2>1. IsChain(a) /\ a.asks = FALSE /\ a.at = "session"
      BY <1>3, ChainFields DEF Ask, IsChain, IdleChain
    <2>2. IsChain(c) /\ c.at # "prompt" /\ c.asks = FALSE
      BY <2>1, ChainFields DEF IsChain
    <2>3. Load(s, c, NoOp, Inherited, state, resources) /\ IsView(state)
      BY <1>3 DEF PInv, Shapes
    <2> HIDE DEF c
    <2> QED
      BY <2>2, <2>3, NoOpIsOp, LoadOwned
  <1>4. LoadMore(s) =>
          \/ LoadLocation(s, resources.container, resources.folder, resources.next,
                          FALSE, NoOp, Inherited)
          \/ \E a : /\ a = Ask("containers", FALSE, FALSE, account, Target)
                    /\ Load(s, [a EXCEPT !.more = resources.next], NoOp, Inherited,
                            state, resources)
          \/ state' = Failed(state, "other") /\ UNCHANGED << chains, op >>
    BY Zenon DEF LoadMore
  <1>5. CASE state' = Failed(state, "other") /\ UNCHANGED << chains, op >>
    BY <1>5, FailedIsView, ViewOwned DEF PInv, Shapes
  <1> QED
    BY <1>1, <1>2, <1>3, <1>4, <1>5, Zenon

LEMMA OpenFolderOwned ==
    ASSUME PInv, NEW s \in Slots, NEW page, NEW container, NEW folder,
           OpenFolder(s, page, container, folder)
    PROVE  PInv' /\ NoNewPrompt
  <1>1. CASE Complete(container)
    <2>1. LoadLocation(s, container, folder, 0, FALSE, NoOp, Inherited)
      BY <1>1 DEF OpenFolder
    <2> QED
      BY <2>1, NoOpIsOp, LoadLocationOwned
  <1>2. CASE ~Complete(container)
    <2>1. state' = Failed(state, "other") /\ UNCHANGED << chains, op >>
      BY <1>2 DEF OpenFolder
    <2> QED
      BY <2>1, FailedIsView, ViewOwned DEF PInv, Shapes
  <1> QED
    BY <1>1, <1>2

LEMMA RefreshOwned ==
    ASSUME PInv, NEW s \in Slots, Refresh(s)
    PROVE  PInv' /\ NoNewPrompt
  BY RefreshPublicOwned, RefreshResourcesOwned DEF Refresh

LEMMA UserStepOwned ==
    ASSUME PInv, NEW s \in Slots, UserStep(s)
    PROVE  PInv' /\ NoNewPrompt
  <1>1. CASE Open(s) \/ Connect(s) \/ OpenPublic(s) \/ Refresh(s) \/ Retry(s)
    BY <1>1, OpenOwned, ConnectOwned, OpenPublicOwned, RefreshOwned, RetryOwned
  <1>2. CASE NavigateUp(s) \/ LoadMore(s)
    BY <1>2, NavigateOwned
  <1>3. CASE \/ \E tenant \in Tenants : ChooseTenant(s, tenant)
             \/ \E sub \in Subscriptions : ChooseSubscription(s, sub)
             \/ \E store \in Stores : ChooseAccount(s, store)
    BY <1>3, ChoiceOwned
  <1>4. CASE \E page \in resources.registry, container \in Containers,
                folder \in OrNone(Folders) : OpenFolder(s, page, container, folder)
    BY <1>4, OpenFolderOwned
  <1> QED
    BY <1>1, <1>2, <1>3, <1>4 DEF UserStep

LEMMA InstantOwned ==
    ASSUME PInv, Instant
    PROVE  PInv' /\ NoNewPrompt
  <1>1. IsView(state)
    BY DEF PInv, Shapes
  <1>2. CASE Disconnect \/ BrowseLocal
    <2>1. chains' = Ended /\ op' = NoOp /\ state' \in {SignedOut, Closed}
      BY <1>2 DEF Disconnect, BrowseLocal, Forget
    <2> QED
      BY <2>1, SignedOutIsView, NoneCurrentOwned
  <1>3. CASE Close
    <2>1. /\ chains' = Ended /\ op' = NoOp
          /\ \/ state' = Closed
             \/ state' = [state EXCEPT !.open = FALSE, !.phase = "closed"]
      BY <1>3 DEF Close
    <2>2. IsView(state')
      BY <1>1, <2>1, SignedOutIsView DEF IsView
    <2> QED
      BY <2>1, <2>2, SignedOutIsView, NoneCurrentOwned
  <1>4. CASE StaleClick \/ CacheExpires
    <2>1. UNCHANGED << chains, op >> /\ (state' = Failed(state, "other") \/ UNCHANGED state)
      BY <1>4 DEF StaleClick, CacheExpires, auth
    <2> QED
      BY <1>1, <2>1, FailedIsView, ViewOwned
  <1>5. CASE \E page \in resources.registry : OpenFile(page)
    <2>1. PICK page \in resources.registry : OpenFile(page)
      BY <1>5
    <2>2. UNCHANGED << chains, op >> /\ state' = [state EXCEPT !.picked = page]
      BY <2>1 DEF OpenFile, auth
    <2>3. IsView(state') /\ state'.open = state.open
      BY <1>1, <2>2, ViewFields DEF IsView
    <2> QED
      BY <2>2, <2>3, ViewOwned
  <1> QED
    BY <1>2, <1>3, <1>4, <1>5 DEF Instant

-----------------------------------------------------------------------------
(* The answers of the provider and of the listings.                        *)

\* A chain that stays in the running as it was, but for what it awaits.
LEMMA AwaitOwned ==
    ASSUME PInv, NEW s \in Slots, NEW d, IsChain(d), d.cur = chains[s].cur,
           d.asks = chains[s].asks, chains' = [chains EXCEPT ![s] = d],
           UNCHANGED << state, op >>
    PROVE  /\ PInv' /\ chains'[s] = d
           /\ \A t \in Slots \ {s} : chains'[t] = chains[t]
  BY DEF PInv, Shapes, AreChains, PromptsAreOwned

LEMMA GrantedOwned ==
    ASSUME PInv, NEW s \in Slots, NEW a, Granted(s, a)
    PROVE  PInv' /\ NoNewPrompt
  <1> DEFINE of == IF chains[s].stage = "location"
                   THEN [chains[s].of EXCEPT !.container = resources.container,
                                             !.folder = resources.folder]
                   ELSE chains[s].of
             d == [chains[s] EXCEPT !.at = "list", !.who = a, !.of = of]
  <1>1. AreChains(chains) /\ IsChain(chains[s])
    BY DEF PInv, Shapes, AreChains
  <1>2. IsChain(d) /\ d.cur = chains[s].cur /\ d.asks = chains[s].asks /\ d.at = "list"
    <2> HIDE DEF of
    <2> QED
      BY <1>1, ChainFields DEF IsChain
  <1>3. chains' = [chains EXCEPT ![s] = d]
    BY <1>1, ChainFields DEF Granted, AreChains, IsChain
  <1> HIDE DEF d
  <1>4. UNCHANGED << state, op >>
    BY DEF Granted, auth
  <1>5. /\ PInv' /\ chains'[s] = d
        /\ \A t \in Slots \ {s} : chains'[t] = chains[t]
    BY <1>2, <1>3, <1>4, AwaitOwned
  <1> QED
    BY <1>2, <1>5 DEF NoNewPrompt

WantedPrompt ==
    \A t \in Slots : (chains[t].at # "prompt" /\ chains'[t].at = "prompt") =>
                        state.open /\ op.slot = t

LEMMA NoSilentSessionOwned ==
    ASSUME PInv, NEW s \in Slots, NoSilentSession(s)
    PROVE  PInv' /\ WantedPrompt
  <1>1. AreChains(chains) /\ IsChain(chains[s]) /\ IsView(state)
    BY DEF PInv, Shapes, AreChains
  <1>2. CASE chains[s].asks /\ chains' = [chains EXCEPT ![s].at = "prompt"]
              /\ UNCHANGED << state, op >>
    <2> DEFINE d == [chains[s] EXCEPT !.at = "prompt"]
    <2>1. IsChain(d) /\ d.cur = chains[s].cur /\ d.asks = chains[s].asks
      BY <1>1, ChainFields DEF IsChain
    <2>2. chains' = [chains EXCEPT ![s] = d]
      BY <1>2
    <2> HIDE DEF d
    <2>3. PInv' /\ \A t \in Slots \ {s} : chains'[t] = chains[t]
      BY <1>2, <2>1, <2>2, AwaitOwned
    <2>4. state.open /\ op.slot = s
      BY <1>2 DEF NoSilentSession, IsCurrent, PInv, PromptsAreOwned
    <2> QED
      BY <2>3, <2>4 DEF WantedPrompt
  <1>3. CASE chains' = [chains EXCEPT ![s].at = "fallback", ![s].who = None]
              /\ UNCHANGED << state, op >>
    <2> DEFINE d == [chains[s] EXCEPT !.at = "fallback", !.who = None]
    <2>1. IsChain(d) /\ d.cur = chains[s].cur /\ d.asks = chains[s].asks
          /\ d.at = "fallback"
      BY <1>1, ChainFields DEF IsChain
    <2>2. chains' = [chains EXCEPT ![s] = d]
      BY <1>1, <1>3, ChainFields DEF AreChains, IsChain
    <2> HIDE DEF d
    <2>3. /\ PInv' /\ chains'[s] = d
          /\ \A t \in Slots \ {s} : chains'[t] = chains[t]
      BY <1>3, <2>1, <2>2, AwaitOwned
    <2> QED
      BY <2>1, <2>3 DEF WantedPrompt
  <1>4. CASE SettleSignedOut(s, chains) /\ UNCHANGED op
    BY <1>4, SettleSignedOutOwned DEF NoNewPrompt, WantedPrompt
  <1>5. CASE Settle(s, Failed(state, "authorize"), resources)
    BY <1>1, <1>5, FailedIsView, SettleOwned DEF NoNewPrompt, WantedPrompt
  <1> QED
    BY <1>2, <1>3, <1>4, <1>5 DEF NoSilentSession, view, auth

LEMMA SettledAnswers ==
    ASSUME PInv, NEW s \in Slots,
           Dropped(s) \/ StageFailed(s) \/ PromptRejected(s) \/ SubscriptionListed(s)
    PROVE  PInv' /\ NoNewPrompt
  <1>1. IsView(state)
    BY DEF PInv, Shapes
  <1>2. CASE Settle(s, state, resources)
    BY <1>1, <1>2, SettleOwned
  <1>3. ASSUME NEW kind, Settle(s, Failed(state, kind), resources)
        PROVE  PInv' /\ NoNewPrompt
    BY <1>1, <1>3, FailedIsView, SettleOwned
  <1>4. CASE SubscriptionListed(s)
    <2>1. PICK names \in {{}, Stores} :
             Settle(s, [state EXCEPT !.phase = "ready", !.stores = Listing(s, names)],
                    resources)
      BY <1>4 DEF SubscriptionListed
    <2> DEFINE v == [state EXCEPT !.phase = "ready", !.stores = Listing(s, names)]
    <2>2. IsView(v) /\ v.open = state.open
      BY <1>1, ViewFields DEF IsView
    <2> HIDE DEF v
    <2>3. Settle(s, v, resources)
      BY <2>1 DEF v
    <2> QED
      BY <2>2, <2>3, SettleOwned
  <1> QED
    BY <1>2, <1>3, <1>4 DEF Dropped, StageFailed, PromptRejected

LEMMA PromptGrantedOwned ==
    ASSUME PInv, NEW s \in Slots, PromptGranted(s)
    PROVE  PInv' /\ NoNewPrompt
  <1>1. CASE Settle(s, state, resources)
    BY <1>1, SettleOwned DEF PInv, Shapes
  <1>2. CASE \E a : Granted(s, a)
    BY <1>2, GrantedOwned
  <1> QED
    BY <1>1, <1>2 DEF PromptGranted

LEMMA KeptIsOwned ==
    ASSUME PInv, NEW s \in Slots, IsCurrent(s)
    PROVE  LET asks == chains[s].asks
           IN  IsOp(Kept(asks)) /\ (asks => Kept(asks).slot = s)
  BY NoOpIsOp DEF PInv, Shapes, PromptsAreOwned, IsCurrent, Kept

LEMMA DiscoverListedOwned ==
    ASSUME PInv, NEW s \in Slots, DiscoverListed(s)
    PROVE  PInv' /\ NoNewPrompt
  <1> DEFINE Shown(names) == [Closed EXCEPT !.open = state.open, !.mode = state.mode,
                !.public = state.public, !.phase = "ready", !.identity = chains[s].who,
                !.tenants = Listing(s, names)]
             asks == chains[s].asks
  <1>1. ASSUME NEW names PROVE IsView(Shown(names)) /\ Shown(names).open = state.open
    BY ViewFields DEF IsView
  <1>2. \/ Settle(s, Shown({}), [resources EXCEPT !.fresh = "fresh"])
        \/ \E tenant \in Tenants :
             SelectTenant(s, tenant, asks, TRUE, Kept(asks), Pending(asks), Shown(Tenants))
    BY Zenon DEF DiscoverListed
  <1>3. IsCurrent(s)
    BY DEF DiscoverListed, Listed
  <1> HIDE DEF Shown
  <1>4. CASE Settle(s, Shown({}), [resources EXCEPT !.fresh = "fresh"])
    BY <1>1, <1>4, SettleOwned
  <1>5. ASSUME NEW tenant \in Tenants,
               SelectTenant(s, tenant, asks, TRUE, Kept(asks), Pending(asks), Shown(Tenants))
        PROVE  PInv' /\ NoNewPrompt
    BY <1>1, <1>3, <1>5, KeptIsOwned, SelectTenantOwned
  <1> QED
    BY <1>2, <1>4, <1>5

LEMMA TenantListedOwned ==
    ASSUME PInv, NEW s \in Slots, TenantListed(s)
    PROVE  PInv' /\ NoNewPrompt
  <1> DEFINE Shown(names) == [state EXCEPT !.phase = "ready", !.subs = Listing(s, names),
                                           !.sub = None]
             asks == chains[s].asks
             marks == chains[s].marks
  <1>1. ASSUME NEW names PROVE IsView(Shown(names)) /\ Shown(names).open = state.open
    BY ViewFields DEF PInv, Shapes, IsView
  <1>2. \/ Settle(s, Shown({}), resources)
        \/ \E sub \in Subscriptions :
             SelectSubscription(s, sub, asks, marks, Kept(asks), Pending(asks),
                                Shown(Subscriptions))
    BY Zenon DEF TenantListed
  <1>3. IsCurrent(s)
    BY DEF TenantListed, Listed
  <1> HIDE DEF Shown
  <1>4. CASE Settle(s, Shown({}), resources)
    BY <1>1, <1>4, SettleOwned
  <1>5. ASSUME NEW sub \in Subscriptions,
               SelectSubscription(s, sub, asks, marks, Kept(asks), Pending(asks),
                                  Shown(Subscriptions))
        PROVE  PInv' /\ NoNewPrompt
    BY <1>1, <1>3, <1>5, KeptIsOwned, SelectSubscriptionOwned
  <1> QED
    BY <1>2, <1>4, <1>5

LEMMA PageListedOwned ==
    ASSUME PInv, NEW s \in Slots, PageListed(s)
    PROVE  PInv' /\ NoNewPrompt
  <1>1. \E entries, held :
           Settle(s, [state EXCEPT !.phase = "ready", !.error = "none",
                          !.path = Path(resources.container, resources.folder),
                          !.entries = entries], held)
    BY Zenon DEF PageListed
  <1>2. ASSUME NEW entries, NEW held,
               Settle(s, [state EXCEPT !.phase = "ready", !.error = "none",
                          !.path = Path(resources.container, resources.folder),
                          !.entries = entries], held)
        PROVE  PInv' /\ NoNewPrompt
    <2> DEFINE v == [state EXCEPT !.phase = "ready", !.error = "none",
                          !.path = Path(resources.container, resources.folder),
                          !.entries = entries]
    <2>1. IsView(v) /\ v.open = state.open
      BY ViewFields DEF PInv, Shapes, IsView
    <2>2. Settle(s, v, held)
      BY <1>2
    <2> HIDE DEF v
    <2> QED
      BY <2>1, <2>2, SettleOwned
  <1> QED
    BY <1>1, <1>2

LEMMA ProvedOwned ==
    ASSUME PInv, NEW s \in Slots, Proved(s)
    PROVE  PInv' /\ NoNewPrompt
  <1> DEFINE d == [chains[s] EXCEPT !.at = "proved"]
  <1>1. IsChain(d) /\ d.cur = chains[s].cur /\ d.asks = chains[s].asks /\ d.at = "proved"
    BY ChainFields DEF PInv, Shapes, AreChains, IsChain
  <1>2. chains' = [chains EXCEPT ![s] = d] /\ UNCHANGED << state, op >>
    BY DEF Proved, view, auth
  <1> HIDE DEF d
  <1>3. /\ PInv' /\ chains'[s] = d
        /\ \A t \in Slots \ {s} : chains'[t] = chains[t]
    BY <1>1, <1>2, AwaitOwned
  <1> QED
    BY <1>1, <1>3 DEF NoNewPrompt

\* A chain that ends leaves the others as they are.
LEMMA EndsOwned ==
    ASSUME PInv, NEW s \in Slots, chains' = [chains EXCEPT ![s] = IdleChain],
           IsView(state'), state.open => state'.open, UNCHANGED op
    PROVE  PInv' /\ NoNewPrompt
  <1>1. AreChains(chains') /\ chains'[s] = IdleChain
        /\ \A t \in Slots \ {s} : chains'[t] = chains[t]
    BY IdleIsChain DEF AreChains, PInv, Shapes
  <1> QED
    BY <1>1, IdleIsChain DEF PInv, Shapes, PromptsAreOwned, NoNewPrompt

LEMMA ReconciledOwned ==
    ASSUME PInv, NEW s \in Slots, Reconciled(s)
    PROVE  PInv' /\ NoNewPrompt
  <1>1. IsView(state)
    BY DEF PInv, Shapes
  <1>2. \/ chains' = [chains EXCEPT ![s] = IdleChain] /\ UNCHANGED << state, op >>
        \/ /\ chains' = [chains EXCEPT ![s] = IdleChain] /\ UNCHANGED op
           /\ state' = [state EXCEPT !.identity = chains[s].who]
        \/ Rediscover(s, None, FALSE)
        \/ SettleSignedOut(s, Superseded) /\ op' = NoOp
    BY Zenon DEF Reconciled, view
  <1>3. CASE chains' = [chains EXCEPT ![s] = IdleChain] /\ UNCHANGED << state, op >>
    BY <1>1, <1>3, EndsOwned
  <1>4. CASE /\ chains' = [chains EXCEPT ![s] = IdleChain] /\ UNCHANGED op
             /\ state' = [state EXCEPT !.identity = chains[s].who]
    <2>1. IsView(state') /\ state'.open = state.open
      BY <1>1, <1>4, ViewFields DEF IsView
    <2> QED
      BY <1>4, <2>1, EndsOwned
  <1>5. CASE Rediscover(s, None, FALSE)
    BY <1>5, RediscoverOwned
  <1>6. CASE SettleSignedOut(s, Superseded) /\ op' = NoOp
    <2>1. CASE Superseded # chains
      BY <1>6, <2>1, SettleSignedOutOwned
    <2>2. CASE Superseded = chains
      <3>1. AreChains(chains) /\ \A t \in Slots : chains[t].cur = FALSE
        BY <2>2, SupersededChains DEF PInv, Shapes
      <3>2. chains' = [chains EXCEPT ![s] = IdleChain] /\ state' = SignedOut
        BY <1>6, <2>2 DEF SettleSignedOut
      <3> QED
        BY <1>6, <3>1, <3>2, IdleIsChain, NoOpIsOp, SignedOutIsView
        DEF AreChains, PInv, Shapes, PromptsAreOwned, NoNewPrompt
    <2> QED
      BY <2>1, <2>2
  <1> QED
    BY <1>2, <1>3, <1>4, <1>5, <1>6

LEMMA ProviderEventOwned ==
    ASSUME PInv, NEW s \in Slots, ProviderEvent(s)
    PROVE  PInv' /\ NoNewPrompt
  <1>1. IsView(state)
    BY DEF PInv, Shapes
  <1>2. CASE UNCHANGED << view, chains, auth >>
    BY <1>1, <1>2, ViewOwned DEF view, auth
  <1>3. CASE op' = [op EXCEPT !.changed = TRUE] /\ UNCHANGED << view, chains >>
    <2>1. IsOp(op') /\ op'.slot = op.slot
      BY <1>3, OpFields DEF PInv, Shapes, IsOp
    <2> QED
      BY <1>3, <2>1 DEF PInv, Shapes, PromptsAreOwned, NoNewPrompt, view
  <1>4. CASE op = NoOp /\ Reconcile(s, state, resources, FALSE)
    <2>1. \A t \in Slots : op.slot # t
      BY <1>4, NameAssumption DEF NoOp
    <2>2. \A t \in Slots \ {s} : ~(chains[t].cur /\ chains[t].asks)
      BY <2>1 DEF PInv, PromptsAreOwned
    <2> QED
      BY <1>1, <1>4, <2>2, ReconcileOwned
  <1>5. CASE state' = Closed /\ chains' = Superseded /\ op' = NoOp
    BY <1>5, NoOpIsOp, SignedOutIsView, NoneCurrentOwned
  <1> QED
    BY <1>2, <1>3, <1>4, <1>5 DEF ProviderEvent

LEMMA InitOwned == Init => PInv
  <1> SUFFICES ASSUME Init PROVE PInv
    OBVIOUS
  <1>1. AreChains(chains) /\ \A t \in Slots : chains[t].cur = FALSE
    BY IdleIsChain DEF Init, AreChains
  <1> QED
    BY <1>1, NoOpIsOp, SignedOutIsView DEF Init, PInv, Shapes, PromptsAreOwned

LEMMA NextOwned ==
    ASSUME PInv, [Next]_vars
    PROVE  PInv' /\ WantedPrompt
  <1>1. NoNewPrompt => WantedPrompt
    BY DEF NoNewPrompt, WantedPrompt
  <1>2. ASSUME NEW s \in Slots, UserStep(s) PROVE PInv' /\ WantedPrompt
    BY <1>1, <1>2, UserStepOwned
  <1>3. ASSUME NEW s \in Slots, Answer(s) PROVE PInv' /\ WantedPrompt
    <2>1. CASE SilentSession(s)
      BY <1>1, <2>1, GrantedOwned DEF SilentSession
    <2>2. CASE NoSilentSession(s)
      BY <2>2, NoSilentSessionOwned
    <2>3. CASE Dropped(s) \/ StageFailed(s) \/ SubscriptionListed(s)
      BY <1>1, <2>3, SettledAnswers
    <2>4. CASE DiscoverListed(s)
      BY <1>1, <2>4, DiscoverListedOwned
    <2>5. CASE TenantListed(s)
      BY <1>1, <2>5, TenantListedOwned
    <2>6. CASE PageListed(s)
      BY <1>1, <2>6, PageListedOwned
    <2>7. CASE Proved(s)
      BY <1>1, <2>7, ProvedOwned
    <2>8. CASE Reconciled(s)
      BY <1>1, <2>8, ReconciledOwned
    <2> QED
      BY <1>3, <2>1, <2>2, <2>3, <2>4, <2>5, <2>6, <2>7, <2>8 DEF Answer
  <1>4. ASSUME NEW s \in Slots, Prompt(s) PROVE PInv' /\ WantedPrompt
    BY <1>1, <1>4, PromptGrantedOwned, SettledAnswers DEF Prompt
  <1>5. ASSUME NEW s \in Slots, ProviderEvent(s) PROVE PInv' /\ WantedPrompt
    BY <1>1, <1>5, ProviderEventOwned
  <1>6. CASE Instant
    BY <1>1, <1>6, InstantOwned
  <1>7. CASE UNCHANGED << state, chains, op >>
    BY <1>1, <1>7, ViewOwned DEF PInv, Shapes
  <1>8. ASSUME NEW a \in Accounts, SessionsChange(a) PROVE PInv' /\ WantedPrompt
    BY <1>7, <1>8 DEF SessionsChange, view, auth
  <1> QED
    BY <1>2, <1>3, <1>4, <1>5, <1>6, <1>7, <1>8 DEF Next, vars, view, auth

(* For any hierarchy, accounts, changes of the sessions, stale clicks and   *)
(* reopenings, and any number of chains under way: a chain that may prompt  *)
(* is the operation the user started last, in an open browser.              *)
THEOREM PromptsHaveAnOwner == Spec => []PInv
  <1>1. PInv /\ [Next]_vars => PInv'
    BY NextOwned
  <1> QED
    BY <1>1, InitOwned, PTL DEF Spec

(* No prompt opens but for that operation: none follows a close, a          *)
(* disconnect or a newer request (requestSession, runInteractive).          *)
THEOREM NoUnwantedPrompt == Spec => PromptsAreWanted
  <1>1. PInv /\ [Next]_vars =>
          [\A s \in Slots :
             (chains[s].at # "prompt" /\ chains'[s].at = "prompt") =>
                 state.open /\ op.slot = s]_vars
    BY NextOwned DEF WantedPrompt
  <1> QED
    BY <1>1, PromptsHaveAnOwner, PTL DEF Spec, PromptsAreWanted

-----------------------------------------------------------------------------
(* Public browsing.                                                        *)

LEMMA ModesOfViews ==
    /\ Closed.mode = "authenticated" /\ SignedOut.mode = "authenticated"
    /\ \A v, kind : IsView(v) =>
          Failed(v, kind).mode = v.mode /\ (IsPublicView(v) => IsPublicView(Failed(v, kind)))
  <1>1. Closed.mode = "authenticated" /\ SignedOut.mode = "authenticated"
    BY DEF Closed, SignedOut
  <1>2. ASSUME NEW v, NEW kind, IsView(v)
        PROVE  Failed(v, kind).mode = v.mode /\ (IsPublicView(v) => IsPublicView(Failed(v, kind)))
    <2> DEFINE w == Failed(v, kind)
    <2>1. w.mode = v.mode /\ w.identity = v.identity /\ w.tenant = v.tenant
          /\ w.tenants = v.tenants /\ w.subs = v.subs /\ w.stores = v.stores
          /\ w.entries = v.entries
      BY <1>2, ViewFields DEF IsView, Failed
    <2> HIDE DEF w
    <2>2. IsPublicView(v) => IsPublicView(w)
      BY <2>1 DEF IsPublicView
    <2> QED
      BY <2>1, <2>2 DEF w
  <1> QED
    BY <1>1, <1>2

LEMMA RediscoverApart ==
    ASSUME NEW s \in Slots, NEW pinned, NEW marks, Rediscover(s, pinned, marks)
    PROVE  PublicApart'
  BY DEF Rediscover, PublicApart, Closed

LEMMA LoadApart ==
    ASSUME QInv, NEW s \in Slots, NEW c, NEW kept, NEW pending, NEW shown, NEW held,
           IsChain(c), IsView(shown), Load(s, c, kept, pending, shown, held),
           shown.mode = "public" =>
              account = None /\ kept = NoOp /\ IsPublicView(shown) /\ IsPublicChain(c)
    PROVE  PublicApart'
  <1>1. CASE pending /\ kept = NoOp /\ shown.mode = "authenticated"
    BY <1>1, RediscoverApart DEF Load
  <1>2. CASE ~(pending /\ kept = NoOp /\ shown.mode = "authenticated")
    <2> DEFINE d == [c EXCEPT !.cur = TRUE]
               v == [shown EXCEPT !.open = TRUE, !.phase = "loading", !.error = "none"]
    <2>1. IsPublicChain(c) => IsPublicChain(d)
      BY ChainFields DEF IsChain, IsPublicChain
    <2>2. v.mode = shown.mode /\ v.identity = shown.identity /\ v.tenant = shown.tenant
          /\ v.tenants = shown.tenants /\ v.subs = shown.subs /\ v.stores = shown.stores
          /\ v.entries = shown.entries
      BY ViewFields DEF IsView
    <2>3. chains' = [Superseded EXCEPT ![s] = d] /\ op' = kept /\ state' = v
          /\ account' = account
      BY <1>2 DEF Load
    <2> HIDE DEF d, v
    <2>4. AreChains(chains) /\ AreChains(Superseded)
      BY SupersededChains DEF QInv, PInv, Shapes
    <2>5. chains'[s] = d /\ \A t \in Slots \ {s} : chains'[t].cur = FALSE
      BY <2>3, <2>4, SupersededChains DEF AreChains
    <2>6. IsPublicView(shown) => IsPublicView(v)
      BY <2>2 DEF IsPublicView
    <2> QED
      BY <2>1, <2>2, <2>3, <2>5, <2>6 DEF PublicApart
  <1> QED
    BY <1>1, <1>2

LEMMA SettleApart ==
    ASSUME QInv, NEW s \in Slots, NEW shown, NEW held, Settle(s, shown, held),
           shown.mode = "public" => state.mode = "public" /\ IsPublicView(shown)
    PROVE  PublicApart'
  <1> DEFINE marked == IF chains[s].marks /\ shown.phase = "ready"
                       THEN [held EXCEPT !.fresh = "fresh"] ELSE held
  <1>1. CASE op.slot = s /\ op.changed
    <2>1. Reconcile(s, shown, marked, deferred)
      BY <1>1 DEF Settle
    <2>2. state.mode # "public"
      BY <1>1, NameAssumption DEF QInv, PublicApart, NoOp
    <2>3. shown.mode # "public"
      BY <2>2
    <2> HIDE DEF marked
    <2>4. CASE account = None
      BY <2>1, <2>4, RediscoverApart DEF Reconcile
    <2>5. CASE account # None
      <3>1. state' = shown
        BY <2>1, <2>5 DEF Reconcile
      <3> QED
        BY <2>3, <3>1 DEF PublicApart
    <2> QED
      BY <2>4, <2>5
  <1>2. CASE ~(op.slot = s /\ op.changed)
    <2>1. /\ chains' = [chains EXCEPT ![s] = IdleChain] /\ state' = shown
          /\ op' = (IF op.slot = s THEN NoOp ELSE op) /\ account' = account
      BY <1>2 DEF Settle
    <2>2. chains'[s] = IdleChain /\ \A t \in Slots \ {s} : chains'[t] = chains[t]
      BY <2>1 DEF AreChains, QInv, PInv, Shapes
    <2> QED
      BY <2>1, <2>2, IdleIsChain DEF QInv, PublicApart
  <1> QED
    BY <1>1, <1>2

\* Steps that change at most the view.
LEMMA ViewApart ==
    ASSUME QInv, UNCHANGED << chains, op, account >>,
           state'.mode = "public" => state.mode = "public" /\ IsPublicView(state')
    PROVE  PublicApart'
  BY DEF QInv, PublicApart

LEMMA EmptyFromNoSession == FromNoSession(<<>>)
  <1> DEFINE S == {}
  <1>1. <<>> \in Seq(S) /\ \A page \in S : page.by = Anonymous
    OBVIOUS
  <1> HIDE DEF S
  <1> QED
    BY <1>1, Zenon DEF FromNoSession

LEMMA LoadLocationApart ==
    ASSUME QInv, NEW s \in Slots, NEW container, NEW folder, NEW more, NEW asks,
           NEW kept, NEW pending, state.mode = "public" => kept = NoOp,
           LoadLocation(s, container, folder, more, asks, kept, pending)
    PROVE  PublicApart'
  <1> DEFINE public == state.mode = "public"
             shown == [state EXCEPT !.path = Path(container, folder)]
             held == [resources EXCEPT !.retry = "location", !.container = container,
                                       !.folder = folder]
             who == IF public THEN Anonymous ELSE account
             of == [Target EXCEPT !.container = container, !.folder = folder]
             a == Ask("location", asks, FALSE, who, of)
             c == [a EXCEPT !.at = IF public THEN "list" ELSE "session", !.more = more]
             v == IF more # 0 THEN shown ELSE [shown EXCEPT !.entries = <<>>, !.picked = None]
             h == IF more # 0 THEN held
                  ELSE [held EXCEPT !.registry = {}, !.next = 0,
                                    !.fresh = IF public THEN "never" ELSE @]
  <1>1. IsView(state)
    BY DEF QInv, PInv, Shapes
  <1>2. IsView(v) /\ v.mode = state.mode /\ v.identity = state.identity
        /\ v.tenant = state.tenant /\ v.tenants = state.tenants /\ v.subs = state.subs
        /\ v.stores = state.stores /\ v.entries \in {state.entries, <<>>}
    BY <1>1, ViewFields DEF IsView
  <1>3. IsChain(a) /\ a.stage = "location" /\ (public => a.who = Anonymous)
    <2>1. IsChain(a) /\ a.stage = "location" /\ a.who = who
      <3> HIDE DEF who, of
      <3> QED
        BY ChainFields DEF Ask, IsChain, IdleChain
    <2> QED
      BY <2>1
  <1> HIDE DEF a
  <1>4. IsChain(c) /\ (public => IsPublicChain(c))
    BY <1>3, ChainFields DEF IsChain, IsPublicChain
  <1>5. Load(s, c, kept, pending, v, h)
    BY DEF LoadLocation, a
  <1> HIDE DEF v, c, h
  <1>6. public => account = None /\ kept = NoOp /\ IsPublicView(v)
    BY <1>2, EmptyFromNoSession DEF QInv, PublicApart, IsPublicView
  <1> QED
    BY <1>2, <1>4, <1>5, <1>6, LoadApart

\* Requests of an authenticated view.
LEMMA AuthenticatedLoadApart ==
    ASSUME QInv, NEW s \in Slots, NEW c, NEW kept, NEW pending, NEW shown, NEW held,
           IsChain(c), IsView(shown), shown.mode # "public",
           Load(s, c, kept, pending, shown, held)
    PROVE  PublicApart'
  BY LoadApart

LEMMA DiscoverApart ==
    ASSUME QInv, NEW s \in Slots, NEW asks, NEW pinned, NEW kept, NEW pending, NEW shown,
           NEW held, IsView(shown), shown.mode # "public",
           Discover(s, asks, pinned, kept, pending, shown, held)
    PROVE  PublicApart'
  <1> DEFINE c == Ask("discover", asks, FALSE, pinned, Nowhere)
             h == [held EXCEPT !.retry = "discover"]
  <1>1. IsChain(c)
    BY ChainFields DEF Ask, IsChain, IdleChain
  <1>2. Load(s, c, kept, pending, shown, h)
    BY DEF Discover
  <1> HIDE DEF c, h
  <1> QED
    BY <1>1, <1>2, AuthenticatedLoadApart

LEMMA SelectTenantApart ==
    ASSUME QInv, NEW s \in Slots, NEW tenant, NEW asks, NEW marks, NEW kept, NEW pending,
           NEW shown, IsView(shown), shown.mode # "public",
           SelectTenant(s, tenant, asks, marks, kept, pending, shown)
    PROVE  PublicApart'
  <1> DEFINE v == [shown EXCEPT !.tenant = tenant, !.subs = NoList, !.sub = None,
                       !.stores = NoList, !.store = None, !.path = <<>>, !.entries = <<>>]
             c == Ask("tenant", asks, marks, account, [Nowhere EXCEPT !.tenant = tenant])
             h == [resources EXCEPT !.retry = "tenant"]
  <1>1. IsView(v) /\ v.mode # "public"
    BY ViewFields DEF IsView
  <1>2. IsChain(c)
    BY AskIsChain
  <1>3. Load(s, c, kept, pending, v, h)
    BY DEF SelectTenant
  <1> HIDE DEF v, c, h
  <1> QED
    BY <1>1, <1>2, <1>3, AuthenticatedLoadApart

LEMMA SelectSubscriptionApart ==
    ASSUME QInv, NEW s \in Slots, NEW sub, NEW asks, NEW marks, NEW kept, NEW pending,
           NEW shown, IsView(shown), shown.mode # "public",
           SelectSubscription(s, sub, asks, marks, kept, pending, shown)
    PROVE  PublicApart'
  <1> DEFINE v == [shown EXCEPT !.sub = sub, !.stores = NoList, !.store = None,
                       !.path = <<>>, !.entries = <<>>]
             c == Ask("subscription", asks, marks, account, [shown.subs.of EXCEPT !.sub = sub])
             h == [resources EXCEPT !.retry = "subscription"]
  <1>1. IsView(v) /\ v.mode # "public"
    BY ViewFields DEF IsView
  <1>2. IsChain(c)
    BY AskIsChain
  <1>3. Load(s, c, kept, pending, v, h)
    BY DEF SelectSubscription
  <1> HIDE DEF v, c, h
  <1> QED
    BY <1>1, <1>2, <1>3, AuthenticatedLoadApart

LEMMA SelectAccountApart ==
    ASSUME QInv, NEW s \in Slots, NEW store, NEW asks, NEW kept, NEW pending,
           state.mode # "public", SelectAccount(s, store, asks, kept, pending)
    PROVE  PublicApart'
  <1> DEFINE v == [state EXCEPT !.store = store, !.path = <<>>, !.entries = <<>>,
                       !.picked = None]
             of == [state.stores.of EXCEPT !.store = store]
             c == Ask("account", asks, FALSE, account, of)
             h == [resources EXCEPT !.retry = "account", !.registry = {}, !.next = 0,
                       !.container = None, !.folder = None]
  <1>1. IsView(v) /\ v.mode # "public"
    BY ViewFields DEF QInv, PInv, Shapes, IsView
  <1>2. IsChain(c)
    <2> HIDE DEF of
    <2> QED
      BY ChainFields DEF Ask, IsChain, IdleChain
  <1>3. Load(s, c, kept, pending, v, h)
    BY DEF SelectAccount
  <1> HIDE DEF v, c, h
  <1> QED
    BY <1>1, <1>2, <1>3, AuthenticatedLoadApart

LEMMA FailedApart ==
    ASSUME QInv, UNCHANGED << chains, op, account >>,
           NEW kind, state' \in {Failed(state, kind), state}
    PROVE  PublicApart'
  <1>1. IsView(state)
    BY DEF QInv, PInv, Shapes
  <1>2. state.mode = "public" => IsPublicView(state)
    BY DEF QInv, PublicApart
  <1> QED
    BY <1>1, <1>2, ModesOfViews, ViewApart

LEMMA RefreshApart ==
    ASSUME QInv, NEW s \in Slots, RefreshPublic(s) \/ RefreshResources(s)
    PROVE  PublicApart'
  <1>1. CASE RefreshPublic(s) /\ Complete(resources.container)
    <2>1. LoadLocation(s, resources.container, resources.folder, 0, FALSE, NoOp, Inherited)
      BY <1>1 DEF RefreshPublic
    <2> QED
      BY <2>1, LoadLocationApart
  <1>2. CASE RefreshPublic(s) /\ ~Complete(resources.container)
    <2>1. state' = Failed(state, "other") /\ UNCHANGED << chains, op, account >>
      BY <1>2 DEF RefreshPublic
    <2> QED
      BY <2>1, FailedApart
  <1>3. CASE RefreshResources(s) /\ (needsConnect \/ account = None)
    <2>1. state' = SignedOut
      BY <1>3 DEF RefreshResources
    <2> QED
      BY <2>1, ModesOfViews DEF PublicApart
  <1>4. CASE RefreshResources(s) /\ ~(needsConnect \/ account = None)
    <2> DEFINE v == [Closed EXCEPT !.open = TRUE, !.identity = state.identity]
    <2>1. Discover(s, FALSE, account, NoOp, Inherited, v, NoResources)
      BY <1>4 DEF RefreshResources
    <2>2. IsView(v) /\ v.mode # "public"
      BY DEF IsView, Closed
    <2> HIDE DEF v
    <2> QED
      BY <2>1, <2>2, DiscoverApart
  <1> QED
    BY <1>1, <1>2, <1>3, <1>4

LEMMA OpenApart ==
    ASSUME QInv, NEW s \in Slots, Open(s)
    PROVE  PublicApart'
  <1>1. CASE RefreshPublic(s) \/ RefreshResources(s)
    BY <1>1, RefreshApart
  <1>2. CASE ~(RefreshPublic(s) \/ RefreshResources(s))
    <2>1. \/ state' = SignedOut
          \/ /\ UNCHANGED << chains, op, account >>
             /\ \/ state' = [state EXCEPT !.open = TRUE, !.phase = "error"]
                \/ state' = [state EXCEPT !.open = TRUE, !.phase = "ready"]
                \/ state' = [state EXCEPT !.open = TRUE, !.phase = "ready", !.error = "none"]
      BY <1>2 DEF Open, auth
    <2>2. CASE state' = SignedOut
      BY <2>2, ModesOfViews DEF PublicApart
    <2>3. CASE state' # SignedOut
      <3>1. state'.mode = state.mode /\ state'.identity = state.identity
            /\ state'.tenant = state.tenant /\ state'.tenants = state.tenants
            /\ state'.subs = state.subs /\ state'.stores = state.stores
            /\ state'.entries = state.entries
        BY <2>1, <2>3, ViewFields DEF QInv, PInv, Shapes, IsView
      <3>2. state.mode = "public" => IsPublicView(state')
        BY <3>1 DEF QInv, PublicApart, IsPublicView
      <3> QED
        BY <2>1, <2>3, <3>1, <3>2, ViewApart
    <2> QED
      BY <2>2, <2>3
  <1> QED
    BY <1>1, <1>2

LEMMA ConnectApart ==
    ASSUME QInv, NEW s \in Slots, Connect(s)
    PROVE  PublicApart'
  <1> DEFINE leaves == state.mode = "public"
             kept == [slot |-> s, changed |-> op.changed \/ deferred]
             shown == IF leaves THEN SignedOut ELSE state
             held == IF leaves THEN NoResources ELSE resources
  <1>1. Discover(s, TRUE, account, kept, FALSE, shown, held)
    BY DEF Connect
  <1>2. IsView(shown) /\ shown.mode # "public"
    BY SignedOutIsView, ModesOfViews DEF QInv, PInv, Shapes
  <1> HIDE DEF kept, shown, held
  <1> QED
    BY <1>1, <1>2, DiscoverApart

LEMMA OpenPublicApart ==
    ASSUME QInv, NEW s \in Slots, OpenPublic(s)
    PROVE  PublicApart'
  <1>1. account' = None /\ op' = NoOp
    BY DEF OpenPublic, Forget
  <1>2. AreChains(chains)
    BY DEF QInv, PInv, Shapes
  <1>3. CASE chains' = Ended /\ state' = Failed([Closed EXCEPT !.mode = "public"], "other")
    <2> DEFINE v == [Closed EXCEPT !.mode = "public"]
    <2>1. IsView(v) /\ v.identity = None /\ v.tenant = None /\ v.tenants = NoList
          /\ v.subs = NoList /\ v.stores = NoList /\ v.entries = <<>>
      BY DEF IsView, Closed
    <2>2. state' = Failed(v, "other")
      BY <1>3
    <2> HIDE DEF v
    <2>3. IsPublicView(v)
      BY <2>1, EmptyFromNoSession DEF IsPublicView
    <2>4. IsPublicView(state')
      BY <2>1, <2>2, <2>3, ModesOfViews
    <2> QED
      BY <1>1, <1>2, <1>3, <2>4, EndedChains DEF PublicApart
  <1>4. ASSUME ~(chains' = Ended /\ state' = Failed([Closed EXCEPT !.mode = "public"], "other"))
        PROVE  PublicApart'
    <2>0. PICK store \in PublicStores, container \in Containers, folder \in OrNone(Folders) :
             \E a : PublicChoice(s, store, container, folder, a)
      BY <1>4, OpenPublicChooses
    <2>1. PICK a : PublicChoice(s, store, container, folder, a)
      BY <2>0
    <2> DEFINE c == [a EXCEPT !.at = "list", !.cur = TRUE]
    <2>2. IsChain(a) /\ a.stage = "location" /\ a.who = Anonymous
      BY <2>1, ChainFields DEF PublicChoice, Ask, IsChain, IdleChain
    <2>3. IsPublicChain(c)
      BY <2>2, ChainFields DEF IsChain, IsPublicChain
    <2>4. chains' = [Ended EXCEPT ![s] = c]
      BY <2>1 DEF PublicChoice
    <2> HIDE DEF c
    <2>5. chains'[s] = c /\ \A t \in Slots \ {s} : chains'[t].cur = FALSE
      BY <1>2, <2>4, EndedChains DEF AreChains
    <2>6. /\ state'.identity = None /\ state'.tenant = None /\ state'.tenants = NoList
          /\ state'.subs = NoList /\ state'.stores = NoList /\ state'.entries = <<>>
      BY <2>1 DEF PublicChoice, Closed
    <2>7. IsPublicView(state')
      BY <2>6, EmptyFromNoSession DEF IsPublicView
    <2> QED
      BY <1>1, <2>3, <2>5, <2>7 DEF PublicApart
  <1> QED
    BY <1>3, <1>4

LEMMA RetryApart ==
    ASSUME QInv, NEW s \in Slots, Retry(s)
    PROVE  PublicApart'
  <1> DEFINE asks == state.mode = "authenticated" /\ Interactive
             kept == IF asks THEN [slot |-> s, changed |-> op.changed \/ deferred] ELSE NoOp
             pending == ~asks /\ Inherited
  <1>1. IsView(state) /\ (state.mode = "public" => kept = NoOp)
    BY DEF QInv, PInv, Shapes
  <1>2. \/ LoadLocation(s, resources.container, resources.folder, 0, asks, kept, pending)
        \/ UNCHANGED << view, chains, op, deferred >>
        \/ /\ state.mode = "authenticated"
           /\ \/ Discover(s, asks, account, kept, pending, state, resources)
              \/ SelectTenant(s, state.tenant, asks, FALSE, kept, pending, state)
              \/ SelectSubscription(s, state.sub, asks, FALSE, kept, pending, state)
              \/ SelectAccount(s, state.store, asks, kept, pending)
    BY Zenon DEF Retry
  <1> HIDE DEF asks, kept, pending
  <1>3. CASE LoadLocation(s, resources.container, resources.folder, 0, asks, kept, pending)
    BY <1>1, <1>3, LoadLocationApart
  <1>4. CASE UNCHANGED << view, chains, op, deferred >>
    BY <1>4, FailedApart DEF view
  <1>5. CASE state.mode = "authenticated"
             /\ Discover(s, asks, account, kept, pending, state, resources)
    BY <1>1, <1>5, DiscoverApart
  <1>6. CASE state.mode = "authenticated"
             /\ SelectTenant(s, state.tenant, asks, FALSE, kept, pending, state)
    <2>1. state.mode # "public"
      BY <1>6
    <2> QED
      BY <1>1, <1>6, <2>1, SelectTenantApart
  <1>7. CASE state.mode = "authenticated"
             /\ SelectSubscription(s, state.sub, asks, FALSE, kept, pending, state)
    <2>1. state.mode # "public"
      BY <1>7
    <2> QED
      BY <1>1, <1>7, <2>1, SelectSubscriptionApart
  <1>8. CASE state.mode = "authenticated"
             /\ SelectAccount(s, state.store, asks, kept, pending)
    BY <1>8, SelectAccountApart
  <1> QED
    BY <1>2, <1>3, <1>4, <1>5, <1>6, <1>7, <1>8

LEMMA ChoiceApart ==
    ASSUME QInv, NEW s \in Slots,
           \/ \E tenant \in Tenants : ChooseTenant(s, tenant)
           \/ \E sub \in Subscriptions : ChooseSubscription(s, sub)
           \/ \E store \in Stores : ChooseAccount(s, store)
    PROVE  PublicApart'
  <1>1. IsView(state) /\ state.mode # "public"
    BY DEF QInv, PInv, Shapes, ChooseTenant, ChooseSubscription, ChooseAccount
  <1>2. ASSUME NEW tenant \in Tenants, ChooseTenant(s, tenant) PROVE PublicApart'
    <2>1. SelectTenant(s, tenant, FALSE, FALSE, NoOp, Inherited, state)
      BY <1>2 DEF ChooseTenant
    <2> QED
      BY <1>1, <2>1, SelectTenantApart
  <1>3. ASSUME NEW sub \in Subscriptions, ChooseSubscription(s, sub) PROVE PublicApart'
    <2>1. SelectSubscription(s, sub, FALSE, FALSE, NoOp, Inherited, state)
      BY <1>3 DEF ChooseSubscription
    <2> QED
      BY <1>1, <2>1, SelectSubscriptionApart
  <1>4. ASSUME NEW store \in Stores, ChooseAccount(s, store) PROVE PublicApart'
    <2>1. SelectAccount(s, store, FALSE, NoOp, Inherited)
      BY <1>4 DEF ChooseAccount
    <2> QED
      BY <1>1, <2>1, SelectAccountApart
  <1> QED
    BY <1>2, <1>3, <1>4

LEMMA NavigateApart ==
    ASSUME QInv, NEW s \in Slots, NavigateUp(s) \/ LoadMore(s)
    PROVE  PublicApart'
  <1>1. CASE NavigateUp(s)
    <2>1. LoadLocation(s, state.path[1], None, 0, FALSE, NoOp, Inherited)
      BY <1>1 DEF NavigateUp
    <2> QED
      BY <2>1, LoadLocationApart
  <1>2. CASE LoadLocation(s, resources.container, resources.folder, resources.next,
                          FALSE, NoOp, Inherited)
    BY <1>2, LoadLocationApart
  <1>3. ASSUME NEW a, a = Ask("containers", FALSE, FALSE, account, Target),
               state.tenant # None,
               Load(s, [a EXCEPT !.more = resources.next], NoOp, Inherited, state, resources)
        PROVE  PublicApart'
    <2> DEFINE c == [a EXCEPT !.more = resources.next]
    <2>1. IsChain(a)
      BY <1>3, ChainFields DEF Ask, IsChain, IdleChain
    <2>2. IsChain(c)
      BY <2>1, ChainFields DEF IsChain
    <2>3. Load(s, c, NoOp, Inherited, state, resources) /\ IsView(state)
      BY <1>3 DEF QInv, PInv, Shapes
    <2>4. state.mode # "public"
      BY <1>3 DEF QInv, PublicApart, IsPublicView
    <2> HIDE DEF c
    <2> QED
      BY <2>2, <2>3, <2>4, AuthenticatedLoadApart
  <1>4. LoadMore(s) =>
          \/ LoadLocation(s, resources.container, resources.folder, resources.next,
                          FALSE, NoOp, Inherited)
          \/ \E a : /\ a = Ask("containers", FALSE, FALSE, account, Target)
                    /\ state.tenant # None
                    /\ Load(s, [a EXCEPT !.more = resources.next], NoOp, Inherited,
                            state, resources)
          \/ state' = Failed(state, "other") /\ UNCHANGED << chains, op, account >>
    BY Zenon DEF LoadMore
  <1>5. CASE state' = Failed(state, "other") /\ UNCHANGED << chains, op, account >>
    BY <1>5, FailedApart
  <1> QED
    BY <1>1, <1>2, <1>3, <1>4, <1>5, Zenon

LEMMA OpenFolderApart ==
    ASSUME QInv, NEW s \in Slots, NEW page, NEW container, NEW folder,
           OpenFolder(s, page, container, folder)
    PROVE  PublicApart'
  <1>1. CASE Complete(container)
    <2>1. LoadLocation(s, container, folder, 0, FALSE, NoOp, Inherited)
      BY <1>1 DEF OpenFolder
    <2> QED
      BY <2>1, LoadLocationApart
  <1>2. CASE ~Complete(container)
    <2>1. state' = Failed(state, "other") /\ UNCHANGED << chains, op, account >>
      BY <1>2 DEF OpenFolder
    <2> QED
      BY <2>1, FailedApart
  <1> QED
    BY <1>1, <1>2

LEMMA UserStepApart ==
    ASSUME QInv, NEW s \in Slots, UserStep(s)
    PROVE  PublicApart'
  <1>1. CASE Open(s) \/ Connect(s) \/ OpenPublic(s) \/ Refresh(s) \/ Retry(s)
    BY <1>1, OpenApart, ConnectApart, OpenPublicApart, RefreshApart, RetryApart DEF Refresh
  <1>2. CASE NavigateUp(s) \/ LoadMore(s)
    BY <1>2, NavigateApart
  <1>3. CASE \/ \E tenant \in Tenants : ChooseTenant(s, tenant)
             \/ \E sub \in Subscriptions : ChooseSubscription(s, sub)
             \/ \E store \in Stores : ChooseAccount(s, store)
    BY <1>3, ChoiceApart
  <1>4. CASE \E page \in resources.registry, container \in Containers,
                folder \in OrNone(Folders) : OpenFolder(s, page, container, folder)
    BY <1>4, OpenFolderApart
  <1> QED
    BY <1>1, <1>2, <1>3, <1>4 DEF UserStep

LEMMA InstantApart ==
    ASSUME QInv, Instant
    PROVE  PublicApart'
  <1>1. IsView(state) /\ AreChains(chains)
    BY DEF QInv, PInv, Shapes
  <1>2. CASE Disconnect \/ BrowseLocal
    <2>1. state' \in {SignedOut, Closed}
      BY <1>2 DEF Disconnect, BrowseLocal
    <2> QED
      BY <2>1, ModesOfViews DEF PublicApart
  <1>3. CASE Close
    <2>1. \/ state' = Closed
          \/ /\ state' = [state EXCEPT !.open = FALSE, !.phase = "closed"]
             /\ account' = account /\ chains' = Ended /\ op' = NoOp
      BY <1>3 DEF Close
    <2>2. CASE state' = Closed
      BY <2>2, ModesOfViews DEF PublicApart
    <2>3. CASE state' # Closed
      <3>1. state'.mode = state.mode /\ state'.identity = state.identity
            /\ state'.tenant = state.tenant /\ state'.tenants = state.tenants
            /\ state'.subs = state.subs /\ state'.stores = state.stores
            /\ state'.entries = state.entries
        BY <1>1, <2>1, <2>3, ViewFields DEF IsView
      <3>2. state.mode = "public" => IsPublicView(state') /\ account' = None
        BY <2>1, <2>3, <3>1 DEF QInv, PublicApart, IsPublicView
      <3> QED
        BY <1>1, <2>1, <2>3, <3>1, <3>2, EndedChains DEF PublicApart
    <2> QED
      BY <2>2, <2>3
  <1>4. CASE StaleClick \/ CacheExpires
    <2>1. UNCHANGED << chains, op, account >>
          /\ state' \in {Failed(state, "other"), state}
      BY <1>4 DEF StaleClick, CacheExpires, auth
    <2> QED
      BY <2>1, FailedApart
  <1>5. CASE \E page \in resources.registry : OpenFile(page)
    <2>1. PICK page \in resources.registry : OpenFile(page)
      BY <1>5
    <2>2. UNCHANGED << chains, op, account >> /\ state' = [state EXCEPT !.picked = page]
      BY <2>1 DEF OpenFile, auth
    <2>3. state'.mode = state.mode /\ state'.identity = state.identity
          /\ state'.tenant = state.tenant /\ state'.tenants = state.tenants
          /\ state'.subs = state.subs /\ state'.stores = state.stores
          /\ state'.entries = state.entries
      BY <1>1, <2>2, ViewFields DEF IsView
    <2>4. state.mode = "public" => IsPublicView(state')
      BY <2>3 DEF QInv, PublicApart, IsPublicView
    <2> QED
      BY <2>2, <2>3, <2>4, ViewApart
  <1> QED
    BY <1>2, <1>3, <1>4, <1>5 DEF Instant

\* What a chain that is looking for a session, or lists something else than a
\* location, may do: it is not current in public mode.
LEMMA OtherChainsAreApart ==
    ASSUME QInv, NEW s \in Slots, IsCurrent(s),
           chains[s].stage # "location" \/ chains[s].at # "list"
    PROVE  state.mode # "public"
  BY DEF QInv, PublicApart, IsPublicChain, IsCurrent

LEMMA GrantedApart ==
    ASSUME QInv, NEW s \in Slots, NEW a, state.mode # "public", Granted(s, a)
    PROVE  PublicApart'
  BY DEF Granted, PublicApart

LEMMA SameViewSettles ==
    ASSUME QInv, NEW s \in Slots, NEW kind, NEW held, NEW shown \in {state, Failed(state, kind)},
           Settle(s, shown, held)
    PROVE  PublicApart'
  <1>1. IsView(state)
    BY DEF QInv, PInv, Shapes
  <1>2. shown.mode = "public" => state.mode = "public" /\ IsPublicView(shown)
    BY <1>1, ModesOfViews DEF QInv, PublicApart
  <1> QED
    BY <1>2, SettleApart

LEMMA SessionAnswersApart ==
    ASSUME QInv, NEW s \in Slots, SilentSession(s) \/ NoSilentSession(s)
    PROVE  PublicApart'
  <1>1. state.mode # "public"
    BY OtherChainsAreApart DEF SilentSession, NoSilentSession
  <1>2. CASE SilentSession(s)
    BY <1>1, <1>2, GrantedApart DEF SilentSession
  <1>3. CASE NoSilentSession(s)
    <2>1. \/ UNCHANGED state
          \/ SettleSignedOut(s, chains)
          \/ Settle(s, Failed(state, "authorize"), resources)
      BY <1>3, Zenon DEF NoSilentSession, view
    <2>2. CASE UNCHANGED state
      BY <1>1, <2>2 DEF PublicApart
    <2>3. CASE SettleSignedOut(s, chains)
      BY <2>3, ModesOfViews DEF SettleSignedOut, PublicApart
    <2>4. CASE Settle(s, Failed(state, "authorize"), resources)
      BY <2>4, SameViewSettles
    <2> QED
      BY <2>1, <2>2, <2>3, <2>4
  <1> QED
    BY <1>2, <1>3

LEMMA EndsApart ==
    ASSUME QInv, NEW s \in Slots,
           Dropped(s) \/ StageFailed(s) \/ PromptRejected(s) \/ PromptGranted(s)
    PROVE  PublicApart'
  <1>1. CASE Settle(s, state, resources)
    BY <1>1, SameViewSettles
  <1>2. ASSUME NEW kind, Settle(s, Failed(state, kind), resources) PROVE PublicApart'
    BY <1>2, SameViewSettles
  <1>3. CASE PromptGranted(s) /\ IsCurrent(s)
    <2>1. state.mode # "public"
      BY <1>3, OtherChainsAreApart DEF PromptGranted
    <2> QED
      BY <1>3, <2>1, GrantedApart DEF PromptGranted
  <1> QED
    BY <1>1, <1>2, <1>3 DEF Dropped, StageFailed, PromptRejected, PromptGranted

LEMMA HierarchyListedApart ==
    ASSUME QInv, NEW s \in Slots,
           DiscoverListed(s) \/ TenantListed(s) \/ SubscriptionListed(s)
    PROVE  PublicApart'
  <1>1. state.mode # "public" /\ IsView(state)
    BY OtherChainsAreApart DEF DiscoverListed, TenantListed, SubscriptionListed, Listed,
                               QInv, PInv, Shapes
  <1>2. CASE DiscoverListed(s)
    <2> DEFINE Shown(names) == [Closed EXCEPT !.open = state.open, !.mode = state.mode,
                  !.public = state.public, !.phase = "ready", !.identity = chains[s].who,
                  !.tenants = Listing(s, names)]
               asks == chains[s].asks
    <2>1. ASSUME NEW names PROVE IsView(Shown(names)) /\ Shown(names).mode # "public"
      BY <1>1, ViewFields DEF IsView
    <2>2. \/ Settle(s, Shown({}), [resources EXCEPT !.fresh = "fresh"])
          \/ \E tenant \in Tenants :
               SelectTenant(s, tenant, asks, TRUE, Kept(asks), Pending(asks), Shown(Tenants))
      BY <1>2, Zenon DEF DiscoverListed
    <2> HIDE DEF Shown
    <2>3. CASE Settle(s, Shown({}), [resources EXCEPT !.fresh = "fresh"])
      BY <2>1, <2>3, SettleApart
    <2>4. ASSUME NEW tenant \in Tenants,
                 SelectTenant(s, tenant, asks, TRUE, Kept(asks), Pending(asks), Shown(Tenants))
          PROVE  PublicApart'
      BY <2>1, <2>4, SelectTenantApart
    <2> QED
      BY <2>2, <2>3, <2>4
  <1>3. CASE TenantListed(s)
    <2> DEFINE Shown(names) == [state EXCEPT !.phase = "ready", !.subs = Listing(s, names),
                                             !.sub = None]
               asks == chains[s].asks
               marks == chains[s].marks
    <2>1. ASSUME NEW names PROVE IsView(Shown(names)) /\ Shown(names).mode # "public"
      BY <1>1, ViewFields DEF IsView
    <2>2. \/ Settle(s, Shown({}), resources)
          \/ \E sub \in Subscriptions :
               SelectSubscription(s, sub, asks, marks, Kept(asks), Pending(asks),
                                  Shown(Subscriptions))
      BY <1>3, Zenon DEF TenantListed
    <2> HIDE DEF Shown
    <2>3. CASE Settle(s, Shown({}), resources)
      BY <2>1, <2>3, SettleApart
    <2>4. ASSUME NEW sub \in Subscriptions,
                 SelectSubscription(s, sub, asks, marks, Kept(asks), Pending(asks),
                                    Shown(Subscriptions))
          PROVE  PublicApart'
      BY <2>1, <2>4, SelectSubscriptionApart
    <2> QED
      BY <2>2, <2>3, <2>4
  <1>4. CASE SubscriptionListed(s)
    <2>1. PICK names \in {{}, Stores} :
             Settle(s, [state EXCEPT !.phase = "ready", !.stores = Listing(s, names)],
                    resources)
      BY <1>4 DEF SubscriptionListed
    <2> DEFINE v == [state EXCEPT !.phase = "ready", !.stores = Listing(s, names)]
    <2>2. v.mode # "public"
      BY <1>1, ViewFields DEF IsView
    <2> HIDE DEF v
    <2>3. Settle(s, v, resources)
      BY <2>1 DEF v
    <2> QED
      BY <2>2, <2>3, SettleApart
  <1> QED
    BY <1>2, <1>3, <1>4

LEMMA AppendFromNoSession ==
    ASSUME NEW entries, NEW page, FromNoSession(entries), page.by = Anonymous
    PROVE  FromNoSession(Append(entries, page)) /\ FromNoSession(<<page>>)
  <1>1. PICK S : entries \in Seq(S) /\ \A p \in S : p.by = Anonymous
    BY DEF FromNoSession
  <1> DEFINE T == S \cup {page}
  <1>2. \A p \in T : p.by = Anonymous
    BY <1>1
  <1>3. entries \in Seq(T) /\ page \in T
    BY <1>1
  <1> HIDE DEF T
  <1>4. Append(entries, page) \in Seq(T) /\ <<page>> \in Seq(T)
    BY <1>3
  <1> QED
    BY <1>2, <1>4 DEF FromNoSession

LEMMA PageListedApart ==
    ASSUME QInv, NEW s \in Slots, PageListed(s)
    PROVE  PublicApart'
  <1> DEFINE chain == chains[s]
             page == [by |-> chain.who, of |-> chain.of,
                      n |-> IF chain.more = 0 THEN 1 ELSE chain.more]
             entries == IF chain.more = 0 THEN <<page>> ELSE Append(state.entries, page)
             v == [state EXCEPT !.phase = "ready", !.error = "none",
                          !.path = Path(resources.container, resources.folder),
                          !.entries = entries]
  <1>1. \E held : Settle(s, v, held)
    BY Zenon DEF PageListed
  <1>2. IsCurrent(s) /\ chain.at = "list"
    BY DEF PageListed, Listed
  <1>3. state.mode = "public" => page.by = Anonymous /\ FromNoSession(state.entries)
    BY <1>2 DEF QInv, PublicApart, IsPublicChain, IsPublicView, IsCurrent
  <1> HIDE DEF page
  <1>4. state.mode = "public" => FromNoSession(entries)
    BY <1>3, AppendFromNoSession
  <1> HIDE DEF entries
  <1>5. v.mode = state.mode /\ v.identity = state.identity /\ v.tenant = state.tenant
        /\ v.tenants = state.tenants /\ v.subs = state.subs /\ v.stores = state.stores
        /\ v.entries = entries
    BY ViewFields DEF QInv, PInv, Shapes, IsView
  <1> HIDE DEF v
  <1>6. v.mode = "public" => state.mode = "public" /\ IsPublicView(v)
    BY <1>4, <1>5 DEF QInv, PublicApart, IsPublicView
  <1> QED
    BY <1>1, <1>6, SettleApart

LEMMA ProvedApart ==
    ASSUME QInv, NEW s \in Slots, Proved(s)
    PROVE  PublicApart'
  <1>1. AreChains(chains) /\ chains[s].stage = "reconcile"
    BY DEF QInv, PInv, Shapes, Proved
  <1>2. chains' = [chains EXCEPT ![s].at = "proved"] /\ UNCHANGED << state, account, op >>
    BY DEF Proved, view, auth
  <1>3. /\ chains'[s].cur = chains[s].cur
        /\ \A t \in Slots \ {s} : chains'[t] = chains[t]
    BY <1>1, <1>2, ChainFields DEF AreChains, IsChain
  <1>4. state.mode = "public" => ~chains[s].cur
    BY <1>1 DEF QInv, PublicApart, IsPublicChain
  <1> QED
    BY <1>2, <1>3, <1>4 DEF QInv, PublicApart

LEMMA ReconciledApart ==
    ASSUME QInv, NEW s \in Slots, Reconciled(s)
    PROVE  PublicApart'
  <1>1. \/ /\ chains' = [chains EXCEPT ![s] = IdleChain]
           /\ UNCHANGED << state, account, op >>
        \/ /\ IsCurrent(s) /\ chains[s].stage = "reconcile"
           /\ state' = [state EXCEPT !.identity = chains[s].who]
        \/ Rediscover(s, None, FALSE)
        \/ SettleSignedOut(s, Superseded)
    BY Zenon DEF Reconciled, view
  <1>2. CASE /\ chains' = [chains EXCEPT ![s] = IdleChain]
             /\ UNCHANGED << state, account, op >>
    <2>1. chains'[s] = IdleChain /\ \A t \in Slots \ {s} : chains'[t] = chains[t]
      BY <1>2 DEF AreChains, QInv, PInv, Shapes
    <2> QED
      BY <1>2, <2>1, IdleIsChain DEF QInv, PublicApart
  <1>3. CASE /\ IsCurrent(s) /\ chains[s].stage = "reconcile"
             /\ state' = [state EXCEPT !.identity = chains[s].who]
    <2>1. state.mode # "public"
      BY <1>3, OtherChainsAreApart
    <2>2. state'.mode = state.mode
      BY <1>3, ViewFields DEF QInv, PInv, Shapes, IsView
    <2> QED
      BY <2>1, <2>2 DEF PublicApart
  <1>4. CASE Rediscover(s, None, FALSE)
    BY <1>4, RediscoverApart
  <1>5. CASE SettleSignedOut(s, Superseded)
    BY <1>5, ModesOfViews DEF SettleSignedOut, PublicApart
  <1> QED
    BY <1>1, <1>2, <1>3, <1>4, <1>5

LEMMA ProviderEventApart ==
    ASSUME QInv, NEW s \in Slots, ProviderEvent(s)
    PROVE  PublicApart'
  <1>1. CASE UNCHANGED << view, chains, auth >>
    BY <1>1, FailedApart DEF view, auth
  <1>2. CASE state.mode = "authenticated" /\ UNCHANGED view
    BY <1>2 DEF view, PublicApart
  <1>3. CASE state.mode = "authenticated" /\ Reconcile(s, state, resources, FALSE)
    <2>1. CASE account = None
      BY <1>3, <2>1, RediscoverApart DEF Reconcile
    <2>2. CASE account # None
      BY <1>3, <2>2 DEF Reconcile, PublicApart
    <2> QED
      BY <2>1, <2>2
  <1>4. CASE state' = Closed
    BY <1>4, ModesOfViews DEF PublicApart
  <1> QED
    BY <1>1, <1>2, <1>3, <1>4 DEF ProviderEvent

LEMMA NextApart ==
    ASSUME QInv, [Next]_vars
    PROVE  PublicApart'
  <1>1. ASSUME NEW s \in Slots, UserStep(s) PROVE PublicApart'
    BY <1>1, UserStepApart
  <1>2. ASSUME NEW s \in Slots, Answer(s) PROVE PublicApart'
    <2>1. CASE SilentSession(s) \/ NoSilentSession(s)
      BY <2>1, SessionAnswersApart
    <2>2. CASE Dropped(s) \/ StageFailed(s)
      BY <2>2, EndsApart
    <2>3. CASE DiscoverListed(s) \/ TenantListed(s) \/ SubscriptionListed(s)
      BY <2>3, HierarchyListedApart
    <2>4. CASE PageListed(s)
      BY <2>4, PageListedApart
    <2>5. CASE Proved(s)
      BY <2>5, ProvedApart
    <2>6. CASE Reconciled(s)
      BY <2>6, ReconciledApart
    <2> QED
      BY <1>2, <2>1, <2>2, <2>3, <2>4, <2>5, <2>6 DEF Answer
  <1>3. ASSUME NEW s \in Slots, Prompt(s) PROVE PublicApart'
    BY <1>3, EndsApart DEF Prompt
  <1>4. ASSUME NEW s \in Slots, ProviderEvent(s) PROVE PublicApart'
    BY <1>4, ProviderEventApart
  <1>5. CASE Instant
    BY <1>5, InstantApart
  <1>6. CASE UNCHANGED << state, account, chains, op >>
    BY <1>6, FailedApart
  <1>7. ASSUME NEW a \in Accounts, SessionsChange(a) PROVE PublicApart'
    BY <1>6, <1>7 DEF SessionsChange, view, auth
  <1> QED
    BY <1>1, <1>2, <1>3, <1>4, <1>5, <1>6, <1>7 DEF Next, vars, view, auth

LEMMA ApartIsAnonymous ==
    ASSUME QInv PROVE PublicIsAnonymous
  <1> SUFFICES ASSUME state.mode = "public" PROVE PublicIsAnonymous
    BY DEF PublicIsAnonymous
  <1>1. account = None /\ op = NoOp /\ IsPublicView(state)
        /\ \A t \in Slots : chains[t].cur => chains[t].at = "list"
    BY DEF QInv, PublicApart, IsPublicChain
  <1>2. PICK S : state.entries \in Seq(S) /\ \A page \in S : page.by = Anonymous
    BY <1>1 DEF IsPublicView, FromNoSession
  <1>3. \A i \in DOMAIN state.entries : state.entries[i].by = Anonymous
    BY <1>2
  <1> QED
    BY <1>1, <1>3 DEF IsPublicView, PublicIsAnonymous

(* Public browsing stays anonymous, whichever requests and answers of the   *)
(* signed-in browser were under way when it began: no account, session or   *)
(* list of one is kept beside it (openPublicContainer, loadLocation).       *)
THEOREM PublicBrowsingIsAnonymous == Spec => []PublicIsAnonymous
  <1>1. Init => QInv
    <2>1. Init => state.mode # "public"
      BY ModesOfViews DEF Init
    <2> QED
      BY <2>1, InitOwned DEF QInv, PublicApart
  <1>2. QInv /\ [Next]_vars => QInv'
    BY NextOwned, NextApart DEF QInv
  <1>3. QInv => PublicIsAnonymous
    BY ApartIsAnonymous
  <1> QED
    BY <1>1, <1>2, <1>3, PTL DEF Spec

-----------------------------------------------------------------------------
(* Places: where the lists, the pages and the chains are.                  *)

LEMMA Places ==
    /\ UpperPlace(Nowhere) /\ UpperPlace(NoList.of) /\ NoList.names = {}
    /\ Above(IdleChain) /\ IdleChain.cur = FALSE
    /\ NoResources.registry = {} /\ NoResources.next = 0 /\ NoResources.fresh = "never"
    /\ DOMAIN NoResources = {"registry", "next", "container", "folder", "fresh", "retry"}
  BY DEF UpperPlace, IsPlace, PlaceFields, Nowhere, NoList, Above, IdleChain, NoResources

LEMMA TargetIsOnDisplay == Target = TargetOf(state)
  BY DEF Target, TargetOf

\* No storage account is chosen.
BlankView(v) ==
    /\ v.mode = "authenticated" /\ v.store = None /\ None \notin v.stores.names
    /\ UpperPlace(v.subs.of) /\ UpperPlace(v.stores.of)

LEMMA BlankViews == BlankView(Closed) /\ BlankView(SignedOut)
  BY Places DEF BlankView, Closed, SignedOut

LEMMA BlankCoherent ==
    ASSUME NEW v, NEW r, NEW cs, BlankView(v), \A page \in r.registry : IsPlace(page.of),
           \A t \in Slots : Above(cs[t])
    PROVE  Coherent(v, r, cs)
  <1>1. TargetOf(v) = Nowhere
    BY DEF BlankView, TargetOf
  <1>2. Placed(v, r)
    BY <1>1 DEF BlankView, Placed, At
  <1>3. \A t \in Slots : Fits(cs[t], v, r)
    BY <1>1 DEF BlankView, Fits, At, Above
  <1> QED
    BY <1>2, <1>3 DEF Coherent

\* Views that show the same place, and the same entries.
Alike(v, w) ==
    /\ w.mode = v.mode /\ w.public = v.public /\ w.tenant = v.tenant
    /\ w.subs = v.subs /\ w.store = v.store /\ w.stores = v.stores
    /\ w.entries = v.entries

LEMMA AlikeFits ==
    ASSUME NEW c, NEW v, NEW w, NEW r, NEW q, Alike(v, w), Fits(c, v, r),
           q.container = r.container, q.folder = r.folder
    PROVE  Fits(c, w, q)
  <1>1. TargetOf(w) = TargetOf(v) /\ PublicPlace(w, q) = PublicPlace(v, r)
    BY DEF Alike, TargetOf, PublicPlace
  <1>2. At(c.of, v, r) => At(c.of, w, q)
    BY <1>1 DEF At
  <1>3. StartsHere(v, r) => StartsHere(w, q)
    BY <1>1 DEF Alike, StartsHere
  <1> QED
    BY <1>1, <1>2, <1>3 DEF Alike, Fits

LEMMA AlikePlaced ==
    ASSUME NEW v, NEW w, NEW r, NEW q, Alike(v, w), Placed(v, r),
           q.container = r.container, q.folder = r.folder, q.registry = r.registry,
           q.next = r.next,
           (w.mode = "public" /\ (w.phase = "ready" \/ q.fresh # "never")) =>
              StartsHere(v, r)
    PROVE  Placed(w, q)
  <1>1. TargetOf(w) = TargetOf(v) /\ PublicPlace(w, q) = PublicPlace(v, r)
    BY DEF Alike, TargetOf, PublicPlace
  <1>2. \A page \in q.registry : At(page.of, w, q)
    BY <1>1 DEF Placed, At
  <1>3. StartsHere(v, r) => StartsHere(w, q)
    BY <1>1 DEF Alike, StartsHere
  <1> QED
    BY <1>2, <1>3 DEF Alike, Placed

LEMMA SupersededAbove ==
    ASSUME LInv
    PROVE  /\ \A t \in Slots : Above(chains[t])
           /\ \A t \in Slots : Above(Superseded[t]) /\ Superseded[t].cur = FALSE
           /\ \A t \in Slots : Above(Ended[t]) /\ Ended[t].cur = FALSE
  <1>1. \A t \in Slots : Above(chains[t]) /\ IsChain(chains[t])
    BY DEF LInv, Coherent, Fits, QInv, PInv, Shapes, AreChains
  <1>2. ASSUME NEW t \in Slots
        PROVE  /\ Superseded[t].of = chains[t].of /\ Superseded[t].stage = chains[t].stage
               /\ Superseded[t].cur = FALSE
               /\ Ended[t].of = chains[t].of /\ Ended[t].stage = chains[t].stage
               /\ Ended[t].cur = FALSE
    BY <1>1, ChainFields DEF Superseded, Ended, IsChain
  <1> QED
    BY <1>1, <1>2 DEF Above

\* A chain that is not current fits everywhere.
LEMMA OvertakenFits ==
    ASSUME NEW c, NEW v, NEW r, Above(c), c.cur = FALSE PROVE Fits(c, v, r)
  BY DEF Fits

-----------------------------------------------------------------------------
(* The ways a step leaves the view, its resources and the chains.          *)

\* It forgets what was on display.
LEMMA BlankStep ==
    ASSUME LInv, BlankView(state'), IsHeld(resources'),
           \A page \in resources'.registry : IsPlace(page.of),
           \A t \in Slots : Above(chains'[t])
    PROVE  IsHeld(resources') /\ Coherent(state', resources', chains')
  BY BlankCoherent

LEMMA NoResourcesStep ==
    ASSUME LInv, BlankView(state'), resources' = NoResources,
           \A t \in Slots : Above(chains'[t])
    PROVE  IsHeld(resources') /\ Coherent(state', resources', chains')
  BY BlankStep, Places DEF IsHeld

\* It shows the same place, and at most ends chains.
LEMMA AlikeStep ==
    ASSUME LInv, Alike(state, state'), chains' \in {chains, Ended, Superseded},
           resources' = resources,
           (state'.mode = "public" /\ state'.phase = "ready") => StartsHere(state, resources)
    PROVE  IsHeld(resources') /\ Coherent(state', resources', chains')
  <1>1. Placed(state, resources) /\ \A t \in Slots : Fits(chains[t], state, resources)
    BY DEF LInv, Coherent
  <1>2. (state'.mode = "public" /\ resources.fresh # "never") => StartsHere(state, resources)
    BY <1>1 DEF Alike, Placed
  <1>3. Placed(state', resources')
    BY <1>1, <1>2, AlikePlaced
  <1>4. \A t \in Slots : Fits(chains[t], state', resources')
    BY <1>1, AlikeFits
  <1>5. \A t \in Slots : Fits(chains'[t], state', resources')
    BY <1>4, SupersededAbove, OvertakenFits
  <1> QED
    BY <1>3, <1>5 DEF LInv, Coherent

LEMMA SameViews ==
    ASSUME LInv
    PROVE  /\ IsView(state) /\ AreChains(chains)
           /\ \A kind : Alike(state, Failed(state, kind)) /\ Failed(state, kind).phase = "error"
           /\ \A kind : IsView(Failed(state, kind))
           /\ Alike(state, state)
  <1>1. IsView(state) /\ AreChains(chains)
    BY DEF LInv, QInv, PInv, Shapes
  <1>2. \A kind : Alike(state, Failed(state, kind)) /\ Failed(state, kind).phase = "error"
    BY <1>1, ViewFields DEF IsView, Alike, Failed
  <1> QED
    BY <1>1, <1>2, FailedIsView DEF Alike

LEMMA FailedStep ==
    ASSUME LInv, NEW kind, state' = Failed(state, kind), UNCHANGED << chains, resources >>
    PROVE  IsHeld(resources') /\ Coherent(state', resources', chains')
  BY SameViews, AlikeStep

LEMMA UnchangedStep ==
    ASSUME LInv, UNCHANGED << state, chains, resources >>
    PROVE  IsHeld(resources') /\ Coherent(state', resources', chains')
  BY DEF LInv

LEMMA RediscoverStep ==
    ASSUME LInv, NEW s \in Slots, NEW pinned, NEW marks, Rediscover(s, pinned, marks)
    PROVE  IsHeld(resources') /\ Coherent(state', resources', chains')
  <1> DEFINE c == [IdleChain EXCEPT !.stage = "discover", !.at = "session", !.cur = TRUE,
                            !.marks = marks, !.who = pinned]
  <1>1. Above(c)
    BY Places DEF Above, IdleChain
  <1>2. chains' = [Superseded EXCEPT ![s] = c] /\ resources' = NoResources
        /\ state' = [Closed EXCEPT !.open = TRUE, !.phase = "loading"]
    BY DEF Rediscover
  <1> HIDE DEF c
  <1>3. AreChains(Superseded)
    BY SameViews, SupersededChains
  <1>4. \A t \in Slots : Above(chains'[t])
    BY <1>1, <1>2, <1>3, SupersededAbove DEF AreChains
  <1>5. BlankView(state')
    BY <1>2, Places DEF BlankView, Closed
  <1> QED
    BY <1>2, <1>4, <1>5, NoResourcesStep

Loading(v) == [v EXCEPT !.open = TRUE, !.phase = "loading", !.error = "none"]

LEMMA LoadStep ==
    ASSUME LInv, NEW s \in Slots, NEW c, NEW kept, NEW pending, NEW shown, NEW held,
           IsChain(c), IsHeld(held), Placed(Loading(shown), held),
           Fits([c EXCEPT !.cur = TRUE], Loading(shown), held),
           Load(s, c, kept, pending, shown, held)
    PROVE  IsHeld(resources') /\ Coherent(state', resources', chains')
  <1>1. CASE pending /\ kept = NoOp /\ shown.mode = "authenticated"
    <2>1. Rediscover(s, account, c.marks)
      BY <1>1 DEF Load
    <2> QED
      BY <2>1, RediscoverStep
  <1>2. CASE ~(pending /\ kept = NoOp /\ shown.mode = "authenticated")
    <2> DEFINE d == [c EXCEPT !.cur = TRUE]
    <2>1. state' = Loading(shown) /\ resources' = held
          /\ chains' = [Superseded EXCEPT ![s] = d]
      BY <1>2 DEF Load, Loading
    <2>2. Fits(d, Loading(shown), held)
      OBVIOUS
    <2> HIDE DEF d
    <2>3. AreChains(Superseded)
      BY SameViews, SupersededChains
    <2>4. \A t \in Slots : Fits(chains'[t], state', resources')
      BY <2>1, <2>2, <2>3, SupersededAbove, OvertakenFits DEF AreChains
    <2> QED
      BY <2>1, <2>4 DEF Coherent
  <1> QED
    BY <1>1, <1>2

LEMMA BlankLoadStep ==
    ASSUME LInv, NEW s \in Slots, NEW c, NEW kept, NEW pending, NEW shown, NEW held,
           IsChain(c), Above(c), IsView(shown), BlankView(shown), IsHeld(held),
           \A page \in held.registry : IsPlace(page.of),
           Load(s, c, kept, pending, shown, held)
    PROVE  IsHeld(resources') /\ Coherent(state', resources', chains')
  <1> DEFINE d == [c EXCEPT !.cur = TRUE]
             v == Loading(shown)
             cs == [t \in Slots |-> d]
  <1>1. Above(d)
    BY ChainFields DEF IsChain, Above
  <1>2. BlankView(v)
    BY ViewFields DEF IsView, BlankView, Loading
  <1>3. \A t \in Slots : Above(cs[t])
    BY <1>1
  <1> HIDE DEF d, v
  <1>4. Coherent(v, held, cs)
    BY <1>2, <1>3, BlankCoherent
  <1>5. Placed(v, held) /\ Fits(d, v, held)
    BY <1>4 DEF Coherent
  <1> HIDE DEF cs
  <1> QED
    BY <1>5, LoadStep DEF d, v

LEMMA ReconcileStep ==
    ASSUME LInv, NEW s \in Slots, NEW shown, NEW held, NEW pending, IsHeld(held),
           shown.mode # "public", Coherent(shown, held, chains),
           Reconcile(s, shown, held, pending)
    PROVE  IsHeld(resources') /\ Coherent(state', resources', chains')
  <1>1. CASE account = None
    BY <1>1, RediscoverStep DEF Reconcile
  <1>2. CASE account # None
    <2> DEFINE d == [IdleChain EXCEPT !.stage = "reconcile", !.at = "session",
                        !.cur = TRUE, !.live = TRUE, !.who = account]
    <2>1. Fits(d, shown, held)
      BY Places DEF Fits, Above, IdleChain
    <2>2. chains' = [chains EXCEPT ![s] = d] /\ state' = shown /\ resources' = held
      BY <1>2 DEF Reconcile
    <2> HIDE DEF d
    <2>3. \A t \in Slots : Fits(chains'[t], shown, held)
      BY <2>1, <2>2, SameViews DEF AreChains, Coherent
    <2> QED
      BY <2>2, <2>3 DEF Coherent
  <1> QED
    BY <1>1, <1>2

LEMMA SettleStep ==
    ASSUME LInv, NEW s \in Slots, NEW shown, NEW held, IsHeld(held),
           shown.mode = "public" => state.mode = "public",
           Coherent(shown, held, chains), Settle(s, shown, held)
    PROVE  IsHeld(resources') /\ Coherent(state', resources', chains')
  <1> DEFINE marked == IF chains[s].marks /\ shown.phase = "ready"
                       THEN [held EXCEPT !.fresh = "fresh"] ELSE held
  <1>1. IsHeld(marked) /\ marked.container = held.container /\ marked.folder = held.folder
        /\ marked.registry = held.registry /\ marked.next = held.next
        /\ (marked.fresh = held.fresh \/ shown.phase = "ready")
    BY Places DEF IsHeld
  <1>2. Alike(shown, shown)
    BY DEF Alike
  <1>3. (shown.mode = "public" /\ (shown.phase = "ready" \/ marked.fresh # "never")) =>
           StartsHere(shown, held)
    BY <1>1 DEF Coherent, Placed
  <1>4. /\ op.slot = s /\ op.changed => Reconcile(s, shown, marked, deferred)
        /\ ~(op.slot = s /\ op.changed) =>
              /\ state' = shown /\ resources' = marked
              /\ chains' = [chains EXCEPT ![s] = IdleChain]
    BY Zenon DEF Settle
  <1> HIDE DEF marked
  <1>5. Placed(shown, marked)
    BY <1>1, <1>2, <1>3, AlikePlaced DEF Coherent
  <1>6. \A t \in Slots : Fits(chains[t], shown, marked)
    BY <1>1, <1>2, AlikeFits DEF Coherent
  <1>7. CASE op.slot = s /\ op.changed
    <2>1. state.mode # "public"
      BY <1>7, NameAssumption DEF LInv, QInv, PublicApart, NoOp
    <2> QED
      BY <1>1, <1>4, <1>5, <1>6, <1>7, <2>1, ReconcileStep DEF Coherent
  <1>8. CASE ~(op.slot = s /\ op.changed)
    <2>1. \A t \in Slots : Fits(chains'[t], state', resources')
      BY <1>4, <1>6, <1>8, Places, SameViews, OvertakenFits DEF AreChains
    <2> QED
      BY <1>1, <1>4, <1>5, <1>8, <2>1 DEF Coherent
  <1> QED
    BY <1>7, <1>8

\* The chain ends, and the view stays or tells of the failure.
LEMMA SameSettleStep ==
    ASSUME LInv, NEW s \in Slots, NEW kind, NEW shown \in {state, Failed(state, kind)},
           Settle(s, shown, resources)
    PROVE  IsHeld(resources') /\ Coherent(state', resources', chains')
  <1>1. Alike(state, shown) /\ IsHeld(resources)
        /\ (shown.phase = state.phase \/ shown.phase = "error")
    BY SameViews DEF LInv
  <1>2. Placed(state, resources) /\ \A t \in Slots : Fits(chains[t], state, resources)
    BY DEF LInv, Coherent
  <1>3. (shown.mode = "public" /\ (shown.phase = "ready" \/ resources.fresh # "never")) =>
           StartsHere(state, resources)
    BY <1>1, <1>2 DEF Alike, Placed
  <1>4. Placed(shown, resources)
    BY <1>1, <1>2, <1>3, AlikePlaced
  <1>5. \A t \in Slots : Fits(chains[t], shown, resources)
    BY <1>1, <1>2, AlikeFits
  <1>6. shown.mode = "public" => state.mode = "public"
    BY <1>1 DEF Alike
  <1> QED
    BY <1>1, <1>4, <1>5, <1>6, SettleStep DEF Coherent

\* The chain ends, and no storage account is chosen.
LEMMA BlankSettleStep ==
    ASSUME LInv, NEW s \in Slots, NEW shown, NEW held, IsHeld(held), BlankView(shown),
           \A page \in held.registry : IsPlace(page.of), Settle(s, shown, held)
    PROVE  IsHeld(resources') /\ Coherent(state', resources', chains')
  <1>1. Coherent(shown, held, chains)
    BY SupersededAbove, BlankCoherent
  <1>2. shown.mode # "public"
    BY DEF BlankView
  <1> QED
    BY <1>1, <1>2, SettleStep

LEMMA SignedOutStep ==
    ASSUME LInv, NEW s \in Slots, NEW cs \in {chains, Superseded}, SettleSignedOut(s, cs)
    PROVE  IsHeld(resources') /\ Coherent(state', resources', chains')
  <1>1. chains' = [cs EXCEPT ![s] = IdleChain] /\ state' = SignedOut
        /\ resources' = NoResources
    BY DEF SettleSignedOut
  <1>2. AreChains(cs)
    BY SameViews, SupersededChains
  <1>3. \A t \in Slots : Above(chains'[t])
    BY <1>1, <1>2, SupersededAbove, Places DEF AreChains
  <1> QED
    BY <1>1, <1>3, BlankViews, NoResourcesStep

-----------------------------------------------------------------------------
(* The stages.                                                             *)

LEMMA DiscoverStep ==
    ASSUME LInv, NEW s \in Slots, NEW asks, NEW pinned, NEW kept, NEW pending, NEW shown,
           NEW held, IsView(shown), IsHeld(held), BlankView(shown) \/ shown = state,
           held.registry = {} \/ held = resources, shown.mode # "public",
           Discover(s, asks, pinned, kept, pending, shown, held)
    PROVE  IsHeld(resources') /\ Coherent(state', resources', chains')
  <1> DEFINE c == Ask("discover", asks, FALSE, pinned, Nowhere)
             d == [c EXCEPT !.cur = TRUE]
             h == [held EXCEPT !.retry = "discover"]
             v == Loading(shown)
  <1>1. IsChain(c) /\ c.stage = "discover" /\ c.of = Nowhere
    BY ChainFields DEF Ask, IsChain, IdleChain
  <1>2. Load(s, c, kept, pending, shown, h)
    BY DEF Discover
  <1>3. IsHeld(h) /\ h.registry = held.registry /\ h.container = held.container
        /\ h.folder = held.folder /\ h.next = held.next
    BY Places DEF IsHeld
  <1>4. Alike(shown, v)
    BY ViewFields DEF Alike, Loading, IsView
  <1>5. d.stage = "discover" /\ d.of = Nowhere
    BY <1>1, ChainFields DEF IsChain
  <1> HIDE DEF c, h, d
  <1>6. Fits(d, v, h)
    BY <1>4, <1>5, Places DEF Fits, Above, Alike, UpperPlace
  <1>7. CASE BlankView(shown)
    <2>1. \A page \in h.registry : IsPlace(page.of)
      BY <1>3 DEF LInv, Coherent, Placed, At
    <2> QED
      BY <1>1, <1>2, <1>3, <1>7, <2>1, Places, BlankLoadStep DEF Above, UpperPlace
  <1>8. CASE shown = state
    <2>1. Placed(state, resources) /\ v.mode # "public"
      BY <1>4 DEF LInv, Coherent, Alike
    <2>2. UpperPlace(v.subs.of) /\ UpperPlace(v.stores.of) /\ None \notin v.stores.names
          /\ (v.store # None => v.tenant # None) /\ v.mode = state.mode
      BY <1>4, <1>8, <2>1 DEF Placed, Alike
    <2>3. \A page \in h.registry : At(page.of, v, h)
      <3>1. TargetOf(v) = TargetOf(state)
        BY <1>4, <1>8 DEF Alike, TargetOf
      <3> QED
        BY <1>3, <2>1, <3>1 DEF Placed, At
    <2>4. Placed(v, h)
      BY <2>1, <2>2, <2>3 DEF Placed
    <2> QED
      BY <1>1, <1>2, <1>3, <1>6, <2>4, LoadStep DEF d
  <1> QED
    BY <1>7, <1>8

LEMMA SelectTenantStep ==
    ASSUME LInv, NEW s \in Slots, NEW tenant, NEW asks, NEW marks, NEW kept, NEW pending,
           NEW shown, IsView(shown), shown.mode = "authenticated",
           SelectTenant(s, tenant, asks, marks, kept, pending, shown)
    PROVE  IsHeld(resources') /\ Coherent(state', resources', chains')
  <1> DEFINE v == [shown EXCEPT !.tenant = tenant, !.subs = NoList, !.sub = None,
                       !.stores = NoList, !.store = None, !.path = <<>>, !.entries = <<>>]
             of == [Nowhere EXCEPT !.tenant = tenant]
             c == Ask("tenant", asks, marks, account, of)
             h == [resources EXCEPT !.retry = "tenant"]
  <1>1. IsView(v) /\ BlankView(v)
    BY ViewFields, Places DEF IsView, BlankView
  <1>2. UpperPlace(of)
    BY Places DEF UpperPlace, IsPlace, Nowhere
  <1>3. IsChain(c) /\ Above(c)
    <2>1. IsChain(c) /\ c.of = of
      <3> HIDE DEF of
      <3> QED
        BY ChainFields DEF Ask, IsChain, IdleChain
    <2> QED
      BY <1>2, <2>1 DEF Above, UpperPlace
  <1>4. IsHeld(h) /\ h.registry = resources.registry
    BY Places DEF LInv, IsHeld
  <1>5. Load(s, c, kept, pending, v, h)
    BY DEF SelectTenant
  <1> HIDE DEF v, c, h
  <1>6. \A page \in h.registry : IsPlace(page.of)
    BY <1>4 DEF LInv, Coherent, Placed, At
  <1> QED
    BY <1>1, <1>3, <1>4, <1>5, <1>6, BlankLoadStep

LEMMA SelectSubscriptionStep ==
    ASSUME LInv, NEW s \in Slots, NEW sub, NEW asks, NEW marks, NEW kept, NEW pending,
           NEW shown, IsView(shown), shown.mode = "authenticated", UpperPlace(shown.subs.of),
           SelectSubscription(s, sub, asks, marks, kept, pending, shown)
    PROVE  IsHeld(resources') /\ Coherent(state', resources', chains')
  <1> DEFINE v == [shown EXCEPT !.sub = sub, !.stores = NoList, !.store = None,
                       !.path = <<>>, !.entries = <<>>]
             of == [shown.subs.of EXCEPT !.sub = sub]
             c == Ask("subscription", asks, marks, account, of)
             h == [resources EXCEPT !.retry = "subscription"]
  <1>1. IsView(v) /\ BlankView(v)
    BY ViewFields, Places DEF IsView, BlankView
  <1>2. UpperPlace(of)
    BY DEF UpperPlace, IsPlace, PlaceFields
  <1>3. IsChain(c) /\ Above(c)
    <2>1. IsChain(c) /\ c.of = of
      <3> HIDE DEF of
      <3> QED
        BY ChainFields DEF Ask, IsChain, IdleChain
    <2> QED
      BY <1>2, <2>1 DEF Above, UpperPlace
  <1>4. IsHeld(h) /\ h.registry = resources.registry
    BY Places DEF LInv, IsHeld
  <1>5. Load(s, c, kept, pending, v, h)
    BY DEF SelectSubscription
  <1> HIDE DEF v, c, h
  <1>6. \A page \in h.registry : IsPlace(page.of)
    BY <1>4 DEF LInv, Coherent, Placed, At
  <1> QED
    BY <1>1, <1>3, <1>4, <1>5, <1>6, BlankLoadStep

LEMMA SelectAccountStep ==
    ASSUME LInv, NEW s \in Slots, NEW store, NEW asks, NEW kept, NEW pending,
           state.mode = "authenticated", state.tenant # None,
           SelectAccount(s, store, asks, kept, pending)
    PROVE  IsHeld(resources') /\ Coherent(state', resources', chains')
  <1> DEFINE v == [state EXCEPT !.store = store, !.path = <<>>, !.entries = <<>>,
                       !.picked = None]
             of == [state.stores.of EXCEPT !.store = store]
             c == Ask("account", asks, FALSE, account, of)
             d == [c EXCEPT !.cur = TRUE]
             h == [resources EXCEPT !.retry = "account", !.registry = {}, !.next = 0,
                       !.container = None, !.folder = None]
             w == Loading(v)
  <1>1. UpperPlace(state.stores.of) /\ UpperPlace(state.subs.of)
        /\ None \notin state.stores.names
    BY DEF LInv, Coherent, Placed
  <1>2. IsView(v) /\ v.mode = state.mode /\ v.subs = state.subs /\ v.stores = state.stores
        /\ v.tenant = state.tenant /\ v.store = store
    BY SameViews, ViewFields DEF IsView
  <1>3. UpperPlace(of)
    BY <1>1 DEF UpperPlace, IsPlace, PlaceFields
  <1>4. IsChain(c) /\ c.stage = "account" /\ c.of = of
    <2> HIDE DEF of
    <2> QED
      BY ChainFields DEF Ask, IsChain, IdleChain
  <1>5. d.stage = "account" /\ d.of = of
    BY <1>4, ChainFields DEF IsChain
  <1>6. IsHeld(h) /\ h.registry = {} /\ h.container = None
    BY Places DEF LInv, IsHeld
  <1>7. Load(s, c, kept, pending, v, h)
    BY DEF SelectAccount
  <1> HIDE DEF v, c, d, h
  <1>8. w.mode = v.mode /\ w.subs = v.subs /\ w.stores = v.stores /\ w.tenant = v.tenant
        /\ w.store = v.store
    BY <1>2, ViewFields DEF IsView, Loading
  <1>9. TargetOf(w) \in {Nowhere, of}
    BY <1>2, <1>8 DEF TargetOf
  <1> HIDE DEF of, w
  <1>10. Placed(w, h)
    BY <1>1, <1>2, <1>6, <1>8 DEF Placed
  <1>11. At(of, w, h)
    BY <1>3, <1>6, <1>9 DEF At, UpperPlace
  <1>12. Fits(d, w, h)
    BY <1>2, <1>3, <1>5, <1>8, <1>11 DEF Fits, Above, UpperPlace
  <1> QED
    BY <1>4, <1>6, <1>7, <1>10, <1>12, LoadStep DEF d, w

LEMMA TargetPlace ==
    ASSUME LInv
    PROVE  /\ UpperPlace(Target)
           /\ state.mode = "public" => Target = [Nowhere EXCEPT !.store = state.public]
                                       \/ Target = Nowhere
           /\ state.mode = "public" /\ Target # Nowhere => state.public # None
           /\ state.mode = "public" /\ state.public # None => Target # Nowhere
           /\ state.mode = "authenticated" /\ Target # Nowhere => state.tenant # None
  <1>1. UpperPlace(state.stores.of) /\ None \notin state.stores.names
        /\ (state.store # None => state.tenant # None)
    BY DEF LInv, Coherent, Placed
  <1>2. UpperPlace([state.stores.of EXCEPT !.store = state.store])
        /\ UpperPlace([Nowhere EXCEPT !.store = state.public])
    BY <1>1, Places DEF UpperPlace, IsPlace, PlaceFields
  <1>3. UpperPlace(Target)
    BY <1>2, Places DEF Target
  <1>4. state.public # None => [Nowhere EXCEPT !.store = state.public] # Nowhere
    <2>1. [Nowhere EXCEPT !.store = state.public].store = state.public /\ Nowhere.store = None
      BY DEF Nowhere
    <2> QED
      BY <2>1
  <1> QED
    BY <1>1, <1>3, <1>4 DEF Target

LEMMA LoadLocationStep ==
    ASSUME LInv, NEW s \in Slots, NEW container, NEW folder, NEW more, NEW asks,
           NEW kept, NEW pending, Complete(container),
           more # 0 => /\ container = resources.container /\ folder = resources.folder
                       /\ more = resources.next,
           LoadLocation(s, container, folder, more, asks, kept, pending)
    PROVE  IsHeld(resources') /\ Coherent(state', resources', chains')
  <1> DEFINE public == state.mode = "public"
             shown == [state EXCEPT !.path = Path(container, folder)]
             held == [resources EXCEPT !.retry = "location", !.container = container,
                                       !.folder = folder]
             who == IF public THEN Anonymous ELSE account
             of == [Target EXCEPT !.container = container, !.folder = folder]
             a == Ask("location", asks, FALSE, who, of)
             c == [a EXCEPT !.at = IF public THEN "list" ELSE "session", !.more = more]
             d == [c EXCEPT !.cur = TRUE]
             v == IF more # 0 THEN shown ELSE [shown EXCEPT !.entries = <<>>, !.picked = None]
             h == IF more # 0 THEN held
                  ELSE [held EXCEPT !.registry = {}, !.next = 0,
                                    !.fresh = IF public THEN "never" ELSE @]
             w == Loading(v)
  <1>1. Placed(state, resources) /\ Target = TargetOf(state)
    BY TargetIsOnDisplay DEF LInv, Coherent
  <1>2. /\ w.mode = state.mode /\ w.public = state.public /\ w.tenant = state.tenant
        /\ w.subs = state.subs /\ w.store = state.store /\ w.stores = state.stores
        /\ w.phase = "loading" /\ (more # 0 => w.entries = state.entries)
    BY SameViews, ViewFields DEF IsView, Loading
  <1>3. /\ IsHeld(h) /\ h.container = container /\ h.folder = folder
        /\ more # 0 => h.registry = resources.registry /\ h.next = resources.next
                       /\ h.fresh = resources.fresh
        /\ more = 0 => h.registry = {} /\ h.next = 0 /\ (public => h.fresh = "never")
    BY Places DEF LInv, IsHeld
  <1>4. IsPlace(of) /\ of.container = container /\ of.folder = folder
        /\ of.tenant = Target.tenant /\ of.sub = Target.sub /\ of.store = Target.store
    BY TargetPlace DEF UpperPlace, IsPlace, PlaceFields
  <1>5. public => of = PublicPlace(w, h)
    <2>1. public => Target = [Nowhere EXCEPT !.store = state.public]
      BY TargetPlace DEF Complete
    <2> QED
      BY <1>2, <1>3, <2>1 DEF PublicPlace
  <1>6. IsChain(a) /\ a.stage = "location" /\ a.of = of
    <2> HIDE DEF of, who
    <2> QED
      BY ChainFields DEF Ask, IsChain, IdleChain
  <1> HIDE DEF a
  <1>7. IsChain(c) /\ IsChain(d) /\ d.stage = "location" /\ d.of = of /\ d.more = more
    BY <1>6, ChainFields DEF IsChain
  <1>8. Load(s, c, kept, pending, v, h)
    BY DEF LoadLocation, a
  <1> HIDE DEF shown, held, v, h, c, d, w, of
  <1>9. TargetOf(w) = Target
    BY <1>1, <1>2 DEF TargetOf
  <1>10. public /\ more # 0 => StartsHere(w, h)
    <2>1. public /\ more # 0 => StartsHere(state, resources)
      BY <1>1 DEF Placed
    <2>2. more # 0 => PublicPlace(w, h) = PublicPlace(state, resources)
      BY <1>2, <1>3 DEF PublicPlace
    <2> QED
      BY <1>2, <2>1, <2>2 DEF StartsHere
  <1>11. \A page \in h.registry : At(page.of, w, h)
    BY <1>1, <1>3, <1>9 DEF Placed, At
  <1>12. container # None /\ (public => state.public # None)
    BY TargetPlace DEF Complete
  <1>13. Placed(w, h)
    BY <1>1, <1>2, <1>3, <1>10, <1>11, <1>12 DEF Placed
  <1>14. At(of, w, h)
    BY <1>3, <1>4, <1>9 DEF At
  <1>15. Fits(d, w, h)
    BY <1>2, <1>4, <1>5, <1>7, <1>10, <1>12, <1>14 DEF Fits, Above
  <1> QED
    BY <1>3, <1>7, <1>8, <1>13, <1>15, LoadStep DEF d, w

-----------------------------------------------------------------------------
(* The requests of the user.                                               *)

LEMMA RefreshStep ==
    ASSUME LInv, NEW s \in Slots,
           \/ state.mode = "public" /\ RefreshPublic(s)
           \/ state.mode = "authenticated" /\ RefreshResources(s)
    PROVE  IsHeld(resources') /\ Coherent(state', resources', chains')
  <1>1. CASE RefreshPublic(s) /\ Complete(resources.container)
    <2>1. LoadLocation(s, resources.container, resources.folder, 0, FALSE, NoOp, Inherited)
      BY <1>1 DEF RefreshPublic
    <2> QED
      BY <1>1, <2>1, LoadLocationStep
  <1>2. CASE RefreshPublic(s) /\ ~Complete(resources.container)
    <2>1. state' = Failed(state, "other") /\ UNCHANGED << chains, resources >>
      BY <1>2 DEF RefreshPublic
    <2> QED
      BY <2>1, FailedStep
  <1>3. CASE RefreshResources(s) /\ (needsConnect \/ account = None)
    <2>1. state' = SignedOut /\ resources' = NoResources /\ chains' = chains
      BY <1>3 DEF RefreshResources
    <2> QED
      BY <2>1, BlankViews, SupersededAbove, NoResourcesStep
  <1>4. CASE RefreshResources(s) /\ ~(needsConnect \/ account = None)
    <2> DEFINE v == [Closed EXCEPT !.open = TRUE, !.identity = state.identity]
    <2>1. Discover(s, FALSE, account, NoOp, Inherited, v, NoResources)
      BY <1>4 DEF RefreshResources
    <2>2. IsView(v) /\ BlankView(v) /\ v.mode # "public"
      BY Places DEF IsView, BlankView, Closed
    <2>3. IsHeld(NoResources) /\ NoResources.registry = {}
      BY Places DEF IsHeld
    <2> HIDE DEF v
    <2> QED
      BY <2>1, <2>2, <2>3, DiscoverStep
  <1> QED
    BY <1>1, <1>2, <1>3, <1>4

LEMMA OpenStep ==
    ASSUME LInv, NEW s \in Slots, Open(s)
    PROVE  IsHeld(resources') /\ Coherent(state', resources', chains')
  <1>1. CASE \/ state.mode = "public" /\ RefreshPublic(s)
             \/ state.mode = "authenticated" /\ RefreshResources(s)
    BY <1>1, RefreshStep
  <1>2. CASE state' = SignedOut /\ resources' = NoResources /\ chains' = chains
    BY <1>2, BlankViews, SupersededAbove, NoResourcesStep
  <1>3. CASE /\ UNCHANGED << chains, resources >>
             /\ \/ state' = [state EXCEPT !.open = TRUE, !.phase = "error"]
                \/ resources.fresh = "fresh"
                   /\ state' = [state EXCEPT !.open = TRUE, !.phase = "ready"]
                \/ state.mode = "authenticated"
                   /\ state' = [state EXCEPT !.open = TRUE, !.phase = "ready", !.error = "none"]
    <2>1. Alike(state, state')
          /\ (state'.phase = "error" \/ resources.fresh = "fresh"
                \/ state.mode = "authenticated")
      BY <1>3, SameViews, ViewFields DEF IsView, Alike
    <2>2. state.mode = "public" /\ resources.fresh = "fresh" => StartsHere(state, resources)
      BY DEF LInv, Coherent, Placed
    <2>3. (state'.mode = "public" /\ state'.phase = "ready") => StartsHere(state, resources)
      BY <2>1, <2>2 DEF Alike
    <2> QED
      BY <1>3, <2>1, <2>3, AlikeStep
  <1> QED
    BY <1>1, <1>2, <1>3 DEF Open

LEMMA ConnectStep ==
    ASSUME LInv, NEW s \in Slots, Connect(s)
    PROVE  IsHeld(resources') /\ Coherent(state', resources', chains')
  <1> DEFINE leaves == state.mode = "public"
             kept == [slot |-> s, changed |-> op.changed \/ deferred]
             shown == IF leaves THEN SignedOut ELSE state
             held == IF leaves THEN NoResources ELSE resources
  <1>1. Discover(s, TRUE, account, kept, FALSE, shown, held)
    BY DEF Connect
  <1>2. IsView(shown) /\ shown.mode # "public" /\ (BlankView(shown) \/ shown = state)
    BY SignedOutIsView, ModesOfViews, BlankViews, SameViews
  <1>3. IsHeld(held) /\ (held.registry = {} \/ held = resources)
    BY Places DEF LInv, IsHeld
  <1> HIDE DEF kept, shown, held
  <1> QED
    BY <1>1, <1>2, <1>3, DiscoverStep

LEMMA BadPublicStep ==
    ASSUME LInv, NEW s \in Slots,
           state' = Failed([Closed EXCEPT !.mode = "public"], "other"),
           resources' = [NoResources EXCEPT !.retry = "location"], chains' = Ended
    PROVE  IsHeld(resources') /\ Coherent(state', resources', chains')
  <1>1. /\ state'.mode = "public" /\ state'.public = None /\ state'.phase = "error"
        /\ state'.subs = NoList /\ state'.stores = NoList /\ state'.store = None
    BY DEF Failed, Closed
  <1>2. IsHeld(resources') /\ resources'.registry = {} /\ resources'.next = 0
        /\ resources'.fresh = "never"
    BY Places DEF IsHeld
  <1>3. Placed(state', resources')
    BY <1>1, <1>2, Places DEF Placed
  <1>4. \A t \in Slots : Fits(chains'[t], state', resources')
    BY SupersededAbove, OvertakenFits
  <1> QED
    BY <1>2, <1>3, <1>4 DEF Coherent

\* What a validated container's URL makes of the resources as well.
LEMMA OpenPublicHolds ==
    ASSUME NEW s \in Slots, OpenPublic(s)
    PROVE  \/ /\ state' = Failed([Closed EXCEPT !.mode = "public"], "other")
              /\ resources' = [NoResources EXCEPT !.retry = "location"] /\ chains' = Ended
           \/ \E store \in PublicStores, container \in Containers, folder \in OrNone(Folders) :
              \E a : /\ PublicChoice(s, store, container, folder, a)
                     /\ resources' = [NoResources EXCEPT !.retry = "location",
                           !.container = container, !.folder = folder]
  <1> DEFINE Held(container, folder) == [NoResources EXCEPT !.retry = "location",
                                          !.container = container, !.folder = folder]
  <1>1. \/ /\ state' = Failed([Closed EXCEPT !.mode = "public"], "other")
           /\ resources' = [NoResources EXCEPT !.retry = "location"] /\ chains' = Ended
        \/ \E store \in PublicStores, container \in Containers, folder \in OrNone(Folders) :
              /\ \E a : PublicChoice(s, store, container, folder, a)
              /\ resources' = Held(container, folder)
    BY Zenon DEF OpenPublic, PublicChoice
  <1> QED
    BY <1>1, Zenon

LEMMA GoodPublicStep ==
    ASSUME LInv, NEW s \in Slots, NEW store \in PublicStores, NEW container \in Containers,
           NEW folder, NEW a, PublicChoice(s, store, container, folder, a),
           resources' = [NoResources EXCEPT !.retry = "location",
                            !.container = container, !.folder = folder]
    PROVE  IsHeld(resources') /\ Coherent(state', resources', chains')
  <1> DEFINE c == [a EXCEPT !.at = "list", !.cur = TRUE]
             of == [Nowhere EXCEPT !.store = store, !.container = container,
                                   !.folder = folder]
  <1>1. a = Ask("location", FALSE, FALSE, Anonymous, of)
    BY DEF PublicChoice
  <1>2. IsPlace(of) /\ of.tenant = None /\ of.sub = None /\ of.store = store
        /\ of.container = container
    BY DEF IsPlace, PlaceFields, Nowhere
  <1>3. /\ state'.mode = "public" /\ state'.public = store /\ state'.phase = "loading"
        /\ state'.subs = NoList /\ state'.stores = NoList /\ state'.store = None
    BY DEF PublicChoice, Closed
  <1>4. IsHeld(resources') /\ resources'.registry = {} /\ resources'.next = 0
        /\ resources'.fresh = "never" /\ resources'.container = container
        /\ resources'.folder = folder
    BY Places DEF IsHeld
  <1>5. of = PublicPlace(state', resources')
    BY <1>3, <1>4 DEF PublicPlace
  <1>6. store # None /\ container # None
    BY NameAssumption
  <1>7. chains' = [Ended EXCEPT ![s] = c]
    BY DEF PublicChoice
  <1> HIDE DEF of
  <1>8. IsChain(a) /\ a.stage = "location" /\ a.of = of /\ a.more = 0
    BY <1>1, ChainFields DEF Ask, IsChain, IdleChain
  <1>9. c.stage = "location" /\ c.of = of /\ c.more = 0
    BY <1>8, ChainFields DEF IsChain
  <1> HIDE DEF c
  <1>10. Placed(state', resources')
    BY <1>3, <1>4, <1>6, Places DEF Placed
  <1>11. At(of, state', resources')
    <2>1. TargetOf(state') = [Nowhere EXCEPT !.store = store]
      BY <1>3, <1>6 DEF TargetOf
    <2>2. TargetOf(state').tenant = None /\ TargetOf(state').sub = None
          /\ TargetOf(state').store = store
      BY <2>1 DEF Nowhere
    <2> QED
      BY <1>2, <1>4, <2>2 DEF At
  <1>12. Fits(c, state', resources')
    BY <1>2, <1>3, <1>5, <1>6, <1>9, <1>11 DEF Fits, Above
  <1>13. AreChains(Ended)
    BY SameViews, EndedChains
  <1>14. \A t \in Slots : Fits(chains'[t], state', resources')
    BY <1>7, <1>12, <1>13, SupersededAbove, OvertakenFits DEF AreChains
  <1> QED
    BY <1>4, <1>10, <1>14 DEF Coherent

LEMMA OpenPublicStep ==
    ASSUME LInv, NEW s \in Slots, OpenPublic(s)
    PROVE  IsHeld(resources') /\ Coherent(state', resources', chains')
  <1>1. CASE /\ state' = Failed([Closed EXCEPT !.mode = "public"], "other")
             /\ resources' = [NoResources EXCEPT !.retry = "location"] /\ chains' = Ended
    BY <1>1, BadPublicStep
  <1>2. ASSUME NEW store \in PublicStores, NEW container \in Containers,
               NEW folder \in OrNone(Folders), NEW a,
               PublicChoice(s, store, container, folder, a),
               resources' = [NoResources EXCEPT !.retry = "location",
                                !.container = container, !.folder = folder]
        PROVE  IsHeld(resources') /\ Coherent(state', resources', chains')
    BY <1>2, GoodPublicStep
  <1> QED
    BY <1>1, <1>2, OpenPublicHolds

LEMMA RetryStep ==
    ASSUME LInv, NEW s \in Slots, Retry(s)
    PROVE  IsHeld(resources') /\ Coherent(state', resources', chains')
  <1> DEFINE asks == state.mode = "authenticated" /\ Interactive
             kept == IF asks THEN [slot |-> s, changed |-> op.changed \/ deferred] ELSE NoOp
             pending == ~asks /\ Inherited
  <1>1. \/ /\ Complete(resources.container)
           /\ LoadLocation(s, resources.container, resources.folder, 0, asks, kept, pending)
        \/ UNCHANGED << view, chains, op, deferred >>
        \/ /\ state.mode = "authenticated"
           /\ \/ Discover(s, asks, account, kept, pending, state, resources)
              \/ SelectTenant(s, state.tenant, asks, FALSE, kept, pending, state)
              \/ SelectSubscription(s, state.sub, asks, FALSE, kept, pending, state)
              \/ /\ state.tenant # None
                 /\ SelectAccount(s, state.store, asks, kept, pending)
    BY Zenon DEF Retry
  <1>2. IsView(state) /\ IsHeld(resources) /\ UpperPlace(state.subs.of)
    BY SameViews DEF LInv, Coherent, Placed
  <1> HIDE DEF asks, kept, pending
  <1>3. CASE /\ Complete(resources.container)
             /\ LoadLocation(s, resources.container, resources.folder, 0, asks, kept, pending)
    BY <1>3, LoadLocationStep
  <1>4. CASE UNCHANGED << view, chains, op, deferred >>
    BY <1>4, UnchangedStep DEF view
  <1>5. CASE /\ state.mode = "authenticated"
             /\ Discover(s, asks, account, kept, pending, state, resources)
    <2>1. state.mode # "public"
      BY <1>5
    <2> QED
      BY <1>2, <1>5, <2>1, DiscoverStep
  <1>6. CASE /\ state.mode = "authenticated"
             /\ SelectTenant(s, state.tenant, asks, FALSE, kept, pending, state)
    BY <1>2, <1>6, SelectTenantStep
  <1>7. CASE /\ state.mode = "authenticated"
             /\ SelectSubscription(s, state.sub, asks, FALSE, kept, pending, state)
    BY <1>2, <1>7, SelectSubscriptionStep
  <1>8. CASE /\ state.mode = "authenticated" /\ state.tenant # None
             /\ SelectAccount(s, state.store, asks, kept, pending)
    BY <1>8, SelectAccountStep
  <1> QED
    BY <1>1, <1>3, <1>4, <1>5, <1>6, <1>7, <1>8

LEMMA ChoiceStep ==
    ASSUME LInv, NEW s \in Slots,
           \/ \E tenant \in Tenants : ChooseTenant(s, tenant)
           \/ \E sub \in Subscriptions : ChooseSubscription(s, sub)
           \/ \E store \in Stores : ChooseAccount(s, store)
    PROVE  IsHeld(resources') /\ Coherent(state', resources', chains')
  <1>1. IsView(state) /\ UpperPlace(state.subs.of)
    BY SameViews DEF LInv, Coherent, Placed
  <1>2. ASSUME NEW tenant \in Tenants, ChooseTenant(s, tenant)
        PROVE  IsHeld(resources') /\ Coherent(state', resources', chains')
    <2>1. SelectTenant(s, tenant, FALSE, FALSE, NoOp, Inherited, state)
          /\ state.mode = "authenticated"
      BY <1>2 DEF ChooseTenant
    <2> QED
      BY <1>1, <2>1, SelectTenantStep
  <1>3. ASSUME NEW sub \in Subscriptions, ChooseSubscription(s, sub)
        PROVE  IsHeld(resources') /\ Coherent(state', resources', chains')
    <2>1. SelectSubscription(s, sub, FALSE, FALSE, NoOp, Inherited, state)
          /\ state.mode = "authenticated"
      BY <1>3 DEF ChooseSubscription
    <2> QED
      BY <1>1, <2>1, SelectSubscriptionStep
  <1>4. ASSUME NEW store \in Stores, ChooseAccount(s, store)
        PROVE  IsHeld(resources') /\ Coherent(state', resources', chains')
    <2>1. SelectAccount(s, store, FALSE, NoOp, Inherited)
          /\ state.mode = "authenticated" /\ state.tenant # None
      BY <1>4 DEF ChooseAccount
    <2> QED
      BY <2>1, SelectAccountStep
  <1> QED
    BY <1>2, <1>3, <1>4

\* loadMore, of containers.
LEMMA MoreContainersStep ==
    ASSUME LInv, NEW s \in Slots, NEW a, a = Ask("containers", FALSE, FALSE, account, Target),
           state.tenant # None, resources.container = None,
           Load(s, [a EXCEPT !.more = resources.next], NoOp, Inherited, state, resources)
    PROVE  IsHeld(resources') /\ Coherent(state', resources', chains')
  <1> DEFINE c == [a EXCEPT !.more = resources.next]
             d == [c EXCEPT !.cur = TRUE]
             w == Loading(state)
  <1>1. state.mode # "public"
    BY DEF LInv, QInv, PublicApart, IsPublicView
  <1>2. IsChain(a) /\ a.stage = "containers" /\ a.of = Target
    BY ChainFields DEF Ask, IsChain, IdleChain
  <1>3. IsChain(c) /\ d.stage = "containers" /\ d.of = Target
    BY <1>2, ChainFields DEF IsChain
  <1>4. Alike(state, w) /\ w.phase = "loading"
    BY SameViews, ViewFields DEF IsView, Loading, Alike
  <1>5. Load(s, c, NoOp, Inherited, state, resources)
    OBVIOUS
  <1> HIDE DEF c, d, w
  <1>6. UpperPlace(Target) /\ TargetOf(w) = Target
    BY <1>4, TargetPlace DEF TargetOf, Target, Alike
  <1>7. At(Target, w, resources)
    BY <1>6 DEF At, UpperPlace
  <1>8. Fits(d, w, resources)
    BY <1>1, <1>3, <1>4, <1>6, <1>7 DEF Fits, Above, UpperPlace, Alike
  <1>9. Placed(w, resources)
    BY <1>1, <1>4, AlikePlaced DEF LInv, Coherent, Alike
  <1> QED
    BY <1>3, <1>5, <1>8, <1>9, LoadStep DEF LInv, d, w

LEMMA NavigateStep ==
    ASSUME LInv, NEW s \in Slots, NavigateUp(s) \/ LoadMore(s)
    PROVE  IsHeld(resources') /\ Coherent(state', resources', chains')
  <1>1. CASE NavigateUp(s)
    <2>1. LoadLocation(s, state.path[1], None, 0, FALSE, NoOp, Inherited)
          /\ Complete(state.path[1])
      BY <1>1 DEF NavigateUp
    <2> QED
      BY <2>1, LoadLocationStep
  <1>2. CASE /\ Complete(resources.container)
             /\ LoadLocation(s, resources.container, resources.folder, resources.next,
                             FALSE, NoOp, Inherited)
    BY <1>2, LoadLocationStep
  <1>3. ASSUME NEW a, a = Ask("containers", FALSE, FALSE, account, Target),
               state.tenant # None, resources.container = None,
               Load(s, [a EXCEPT !.more = resources.next], NoOp, Inherited, state, resources)
        PROVE  IsHeld(resources') /\ Coherent(state', resources', chains')
    BY <1>3, MoreContainersStep
  <1>4. LoadMore(s) =>
          \/ /\ Complete(resources.container)
             /\ LoadLocation(s, resources.container, resources.folder, resources.next,
                             FALSE, NoOp, Inherited)
          \/ \E a : /\ a = Ask("containers", FALSE, FALSE, account, Target)
                    /\ state.tenant # None /\ resources.container = None
                    /\ Load(s, [a EXCEPT !.more = resources.next], NoOp, Inherited,
                            state, resources)
          \/ state' = Failed(state, "other") /\ UNCHANGED << chains, resources >>
    BY Zenon DEF LoadMore
  <1>5. CASE state' = Failed(state, "other") /\ UNCHANGED << chains, resources >>
    BY <1>5, FailedStep
  <1> QED
    BY <1>1, <1>2, <1>3, <1>4, <1>5, Zenon

\* A folder that cannot be loaded: no storage account is on display, or the browser
\* is in no container and stays there.
LEMMA OpenFolderFails ==
    ASSUME LInv, NEW s \in Slots, NEW page, NEW container \in Containers \cup {None},
           NEW folder, container = None => container = resources.container,
           state.mode = "public" =>
              page \in resources.registry /\ container = resources.container,
           ~Complete(container), state' = Failed(state, "other"), chains' = chains,
           resources' = [resources EXCEPT !.container = container, !.folder = folder]
    PROVE  IsHeld(resources') /\ Coherent(state', resources', chains')
  <1>1. Placed(state, resources) /\ \A t \in Slots : Fits(chains[t], state, resources)
    BY DEF LInv, Coherent
  <1>2. state.mode # "public"
    BY <1>1, TargetPlace DEF Placed, Complete
  <1>3. Alike(state, state')
    BY SameViews
  <1>4. TargetOf(state') = Target /\ TargetOf(state) = Target
    BY <1>3, TargetIsOnDisplay DEF TargetOf, Alike
  <1>5. IsHeld(resources') /\ resources'.registry = resources.registry
        /\ resources'.container = container
    BY Places DEF LInv, IsHeld
  <1>6. Target = Nowhere \/ resources'.container = resources.container
    BY <1>2, <1>5, TargetPlace DEF Complete
  <1>7. ASSUME NEW of, At(of, state, resources) PROVE At(of, state', resources')
    BY <1>4, <1>6, <1>7 DEF At
  <1>8. Placed(state', resources')
    BY <1>1, <1>2, <1>3, <1>5, <1>7 DEF Placed, Alike
  <1>9. \A t \in Slots : Fits(chains[t], state', resources')
    BY <1>1, <1>2, <1>3, <1>7 DEF Fits, Alike
  <1> QED
    BY <1>5, <1>8, <1>9 DEF Coherent

LEMMA OpenFolderStep ==
    ASSUME LInv, NEW s \in Slots, NEW page \in resources.registry,
           NEW container \in Containers, NEW folder, OpenFolder(s, page, container, folder)
    PROVE  IsHeld(resources') /\ Coherent(state', resources', chains')
  <1>1. CASE Complete(container)
    <2>1. LoadLocation(s, container, folder, 0, FALSE, NoOp, Inherited)
      BY <1>1 DEF OpenFolder
    <2> QED
      BY <1>1, <2>1, LoadLocationStep
  <1>2. CASE ~Complete(container)
    <2>1. /\ state' = Failed(state, "other") /\ chains' = chains
          /\ resources' = [resources EXCEPT !.container = container, !.folder = folder]
          /\ state.mode = "public" => container = resources.container
      BY <1>2 DEF OpenFolder
    <2>2. container # None
      BY NameAssumption
    <2> QED
      BY <1>2, <2>1, <2>2, OpenFolderFails
  <1> QED
    BY <1>1, <1>2

LEMMA UserStepStep ==
    ASSUME LInv, NEW s \in Slots, UserStep(s)
    PROVE  IsHeld(resources') /\ Coherent(state', resources', chains')
  <1>1. CASE Refresh(s)
    <2>1. state.mode # "public" => state.mode = "authenticated"
      BY DEF LInv, Coherent, Placed
    <2> QED
      BY <1>1, <2>1, RefreshStep DEF Refresh
  <1>2. CASE Open(s) \/ Connect(s) \/ OpenPublic(s) \/ Retry(s)
    BY <1>2, OpenStep, ConnectStep, OpenPublicStep, RetryStep
  <1>3. CASE NavigateUp(s) \/ LoadMore(s)
    BY <1>3, NavigateStep
  <1>4. CASE \/ \E tenant \in Tenants : ChooseTenant(s, tenant)
             \/ \E sub \in Subscriptions : ChooseSubscription(s, sub)
             \/ \E store \in Stores : ChooseAccount(s, store)
    BY <1>4, ChoiceStep
  <1>5. CASE \E page \in resources.registry, container \in Containers,
                folder \in OrNone(Folders) : OpenFolder(s, page, container, folder)
    BY <1>5, OpenFolderStep
  <1> QED
    BY <1>1, <1>2, <1>3, <1>4, <1>5 DEF UserStep

LEMMA InstantStep ==
    ASSUME LInv, Instant
    PROVE  IsHeld(resources') /\ Coherent(state', resources', chains')
  <1>1. CASE Disconnect \/ BrowseLocal
    <2>1. state' \in {SignedOut, Closed} /\ resources' = NoResources /\ chains' = Ended
      BY <1>1 DEF Disconnect, BrowseLocal
    <2> QED
      BY <2>1, BlankViews, SupersededAbove, NoResourcesStep
  <1>2. CASE Close
    <2>1. /\ chains' = Ended
          /\ \/ state' = Closed /\ resources' = NoResources
             \/ /\ state' = [state EXCEPT !.open = FALSE, !.phase = "closed"]
                /\ resources' = resources
      BY <1>2 DEF Close
    <2>2. CASE state' = Closed /\ resources' = NoResources
      BY <2>1, <2>2, BlankViews, SupersededAbove, NoResourcesStep
    <2>3. CASE /\ state' = [state EXCEPT !.open = FALSE, !.phase = "closed"]
               /\ resources' = resources
      <3>1. Alike(state, state') /\ state'.phase = "closed"
        BY <2>3, SameViews, ViewFields DEF IsView, Alike
      <3> QED
        BY <2>1, <2>3, <3>1, AlikeStep
    <2> QED
      BY <2>1, <2>2, <2>3
  <1>3. CASE StaleClick
    <2>1. state' = Failed(state, "other") /\ UNCHANGED << chains, resources >>
      BY <1>3 DEF StaleClick
    <2> QED
      BY <2>1, FailedStep
  <1>4. CASE CacheExpires
    <2>1. /\ UNCHANGED << state, chains >> /\ resources.fresh # "never"
          /\ resources' = [resources EXCEPT !.fresh = "stale"]
      BY <1>4 DEF CacheExpires
    <2>2. /\ IsHeld(resources') /\ resources'.container = resources.container
          /\ resources'.folder = resources.folder /\ resources'.next = resources.next
          /\ resources'.registry = resources.registry
      BY <2>1, Places DEF LInv, IsHeld
    <2>3. Placed(state, resources) /\ \A t \in Slots : Fits(chains[t], state, resources)
      BY DEF LInv, Coherent
    <2>4. state.mode = "public" => StartsHere(state, resources)
      BY <2>1, <2>3 DEF Placed
    <2>5. Placed(state, resources')
      BY <2>2, <2>3, <2>4, SameViews, AlikePlaced
    <2>6. \A t \in Slots : Fits(chains[t], state, resources')
      BY <2>2, <2>3, SameViews, AlikeFits
    <2> QED
      BY <2>1, <2>2, <2>5, <2>6 DEF Coherent
  <1>5. CASE \E page \in resources.registry : OpenFile(page)
    <2>1. PICK page \in resources.registry : OpenFile(page)
      BY <1>5
    <2>2. UNCHANGED << chains, resources >> /\ state' = [state EXCEPT !.picked = page]
      BY <2>1 DEF OpenFile
    <2>3. Alike(state, state') /\ state'.phase = state.phase
      BY <2>2, SameViews, ViewFields DEF IsView, Alike
    <2>4. (state'.mode = "public" /\ state'.phase = "ready") => StartsHere(state, resources)
      BY <2>3 DEF LInv, Coherent, Placed, Alike
    <2> QED
      BY <2>2, <2>3, <2>4, AlikeStep
  <1> QED
    BY <1>1, <1>2, <1>3, <1>4, <1>5 DEF Instant

-----------------------------------------------------------------------------
(* The answers of the provider and of the listings.                        *)

\* A chain moves on, and the view stays.
LEMMA MoveStep ==
    ASSUME LInv, NEW s \in Slots, NEW d, Fits(d, state, resources),
           chains' = [chains EXCEPT ![s] = d], UNCHANGED << state, resources >>
    PROVE  IsHeld(resources') /\ Coherent(state', resources', chains')
  BY SameViews DEF AreChains, LInv, Coherent

LEMMA GrantedStep ==
    ASSUME LInv, NEW s \in Slots, NEW a, state.mode # "public", Granted(s, a)
    PROVE  IsHeld(resources') /\ Coherent(state', resources', chains')
  <1> DEFINE of == IF chains[s].stage = "location"
                   THEN [chains[s].of EXCEPT !.container = resources.container,
                                             !.folder = resources.folder]
                   ELSE chains[s].of
             d == [chains[s] EXCEPT !.at = "list", !.who = a, !.of = of]
  <1>1. AreChains(chains) /\ IsChain(chains[s])
    BY SameViews DEF AreChains
  <1>2. Fits(chains[s], state, resources)
    BY DEF LInv, Coherent
  <1>3. chains' = [chains EXCEPT ![s] = d] /\ UNCHANGED << state, resources >>
    BY <1>1, ChainFields DEF Granted, AreChains, IsChain
  <1>4. /\ chains[s].stage # "location" => of = chains[s].of
        /\ IsPlace(of) /\ of.tenant = chains[s].of.tenant /\ of.sub = chains[s].of.sub
        /\ of.store = chains[s].of.store
        /\ chains[s].stage = "location" => of.container = resources.container
    BY <1>2 DEF Fits, Above, IsPlace, PlaceFields
  <1>5. d.of = of /\ d.stage = chains[s].stage /\ d.cur = chains[s].cur
    <2> HIDE DEF of
    <2> QED
      BY <1>1, ChainFields DEF IsChain
  <1> HIDE DEF d, of
  <1>6. Fits(d, state, resources)
    BY <1>2, <1>4, <1>5 DEF Fits, Above, At
  <1> QED
    BY <1>3, <1>6, MoveStep

LEMMA SessionAnswersStep ==
    ASSUME LInv, NEW s \in Slots, SilentSession(s) \/ NoSilentSession(s)
    PROVE  IsHeld(resources') /\ Coherent(state', resources', chains')
  <1>1. state.mode # "public"
    BY OtherChainsAreApart DEF SilentSession, NoSilentSession, LInv
  <1>2. CASE SilentSession(s)
    BY <1>1, <1>2, GrantedStep DEF SilentSession
  <1>3. CASE NoSilentSession(s)
    <2>1. \/ /\ UNCHANGED view
             /\ \/ chains' = [chains EXCEPT ![s].at = "prompt"]
                \/ chains' = [chains EXCEPT ![s].at = "fallback", ![s].who = None]
          \/ SettleSignedOut(s, chains)
          \/ Settle(s, Failed(state, "authorize"), resources)
      BY <1>3, Zenon DEF NoSilentSession
    <2>2. ASSUME NEW d, d.of = chains[s].of, d.stage = chains[s].stage, d.cur = chains[s].cur,
                 chains' = [chains EXCEPT ![s] = d], UNCHANGED view
          PROVE  IsHeld(resources') /\ Coherent(state', resources', chains')
      <3>1. Fits(d, state, resources)
        BY <1>1, <2>2 DEF LInv, Coherent, Fits, Above
      <3> QED
        BY <2>2, <3>1, MoveStep DEF view
    <2>3. CASE chains' = [chains EXCEPT ![s].at = "prompt"] /\ UNCHANGED view
      <3> DEFINE d == [chains[s] EXCEPT !.at = "prompt"]
      <3>1. chains' = [chains EXCEPT ![s] = d]
        BY <2>3
      <3>2. d.of = chains[s].of /\ d.stage = chains[s].stage /\ d.cur = chains[s].cur
        BY SameViews, ChainFields DEF AreChains, IsChain
      <3> HIDE DEF d
      <3> QED
        BY <2>2, <2>3, <3>1, <3>2
    <2>4. CASE chains' = [chains EXCEPT ![s].at = "fallback", ![s].who = None]
               /\ UNCHANGED view
      <3> DEFINE d == [chains[s] EXCEPT !.at = "fallback", !.who = None]
      <3>1. chains' = [chains EXCEPT ![s] = d]
        BY <2>4, SameViews, ChainFields DEF AreChains, IsChain
      <3>2. d.of = chains[s].of /\ d.stage = chains[s].stage /\ d.cur = chains[s].cur
        BY SameViews, ChainFields DEF AreChains, IsChain
      <3> HIDE DEF d
      <3> QED
        BY <2>2, <2>4, <3>1, <3>2
    <2>5. CASE SettleSignedOut(s, chains)
      BY <2>5, SignedOutStep
    <2>6. CASE Settle(s, Failed(state, "authorize"), resources)
      BY <2>6, SameSettleStep
    <2> QED
      BY <2>1, <2>3, <2>4, <2>5, <2>6
  <1> QED
    BY <1>2, <1>3

LEMMA EndsStep ==
    ASSUME LInv, NEW s \in Slots,
           Dropped(s) \/ StageFailed(s) \/ PromptRejected(s) \/ PromptGranted(s)
    PROVE  IsHeld(resources') /\ Coherent(state', resources', chains')
  <1>1. CASE Settle(s, state, resources)
    BY <1>1, SameSettleStep
  <1>2. ASSUME NEW kind, Settle(s, Failed(state, kind), resources)
        PROVE  IsHeld(resources') /\ Coherent(state', resources', chains')
    BY <1>2, SameSettleStep
  <1>3. CASE PromptGranted(s) /\ IsCurrent(s)
    <2>1. state.mode # "public"
      BY <1>3, OtherChainsAreApart DEF PromptGranted, LInv
    <2> QED
      BY <1>3, <2>1, GrantedStep DEF PromptGranted
  <1> QED
    BY <1>1, <1>2, <1>3 DEF Dropped, StageFailed, PromptRejected, PromptGranted

LEMMA HierarchyListedStep ==
    ASSUME LInv, NEW s \in Slots,
           DiscoverListed(s) \/ TenantListed(s) \/ SubscriptionListed(s)
    PROVE  IsHeld(resources') /\ Coherent(state', resources', chains')
  <1>1. IsView(state) /\ IsHeld(resources) /\ Placed(state, resources)
        /\ Fits(chains[s], state, resources) /\ chains[s].cur
    BY SameViews DEF LInv, Coherent, DiscoverListed, TenantListed, SubscriptionListed,
                     Listed, IsCurrent
  <1>2. state.mode # "public"
    BY OtherChainsAreApart DEF DiscoverListed, TenantListed, SubscriptionListed, Listed, LInv
  <1>3. state.mode = "authenticated"
    BY <1>1, <1>2 DEF Placed
  <1>4. \A page \in resources.registry : IsPlace(page.of)
    BY <1>1 DEF Placed, At
  <1>5. CASE DiscoverListed(s)
    <2> DEFINE Shown(names) == [Closed EXCEPT !.open = state.open, !.mode = state.mode,
                  !.public = state.public, !.phase = "ready", !.identity = chains[s].who,
                  !.tenants = Listing(s, names)]
               asks == chains[s].asks
               h == [resources EXCEPT !.fresh = "fresh"]
    <2>1. ASSUME NEW names
          PROVE  IsView(Shown(names)) /\ BlankView(Shown(names))
                 /\ Shown(names).mode = "authenticated"
      BY <1>3, Places DEF IsView, BlankView, Closed
    <2>2. \/ Settle(s, Shown({}), h)
          \/ \E tenant \in Tenants :
               SelectTenant(s, tenant, asks, TRUE, Kept(asks), Pending(asks), Shown(Tenants))
      BY <1>5, Zenon DEF DiscoverListed
    <2>3. IsHeld(h) /\ h.registry = resources.registry
      BY <1>1, Places DEF IsHeld
    <2> HIDE DEF Shown, h
    <2>4. CASE Settle(s, Shown({}), h)
      BY <1>4, <2>1, <2>3, <2>4, BlankSettleStep
    <2>5. ASSUME NEW tenant \in Tenants,
                 SelectTenant(s, tenant, asks, TRUE, Kept(asks), Pending(asks), Shown(Tenants))
          PROVE  IsHeld(resources') /\ Coherent(state', resources', chains')
      BY <2>1, <2>5, SelectTenantStep
    <2> QED
      BY <2>2, <2>4, <2>5
  <1>6. CASE TenantListed(s)
    <2> DEFINE Shown(names) == [state EXCEPT !.phase = "ready", !.subs = Listing(s, names),
                                             !.sub = None]
               asks == chains[s].asks
               marks == chains[s].marks
    <2>1. UpperPlace(chains[s].of) /\ state.store = None
      BY <1>1, <1>6 DEF TenantListed, Listed, Fits, Above
    <2>2. ASSUME NEW names
          PROVE  IsView(Shown(names)) /\ BlankView(Shown(names))
                 /\ Shown(names).mode = "authenticated" /\ UpperPlace(Shown(names).subs.of)
      <3>1. UpperPlace(Listing(s, names).of)
        BY <2>1 DEF Listing
      <3>2. IsView(Shown(names)) /\ Shown(names).mode = state.mode
            /\ Shown(names).subs = Listing(s, names) /\ Shown(names).stores = state.stores
            /\ Shown(names).store = state.store
        BY <1>1, ViewFields DEF IsView
      <3> HIDE DEF Shown
      <3> QED
        BY <1>1, <1>3, <2>1, <3>1, <3>2 DEF BlankView, Placed
    <2>3. \/ Settle(s, Shown({}), resources)
          \/ \E sub \in Subscriptions :
               SelectSubscription(s, sub, asks, marks, Kept(asks), Pending(asks),
                                  Shown(Subscriptions))
      BY <1>6, Zenon DEF TenantListed
    <2> HIDE DEF Shown
    <2>4. CASE Settle(s, Shown({}), resources)
      BY <1>1, <1>4, <2>2, <2>4, BlankSettleStep
    <2>5. ASSUME NEW sub \in Subscriptions,
                 SelectSubscription(s, sub, asks, marks, Kept(asks), Pending(asks),
                                    Shown(Subscriptions))
          PROVE  IsHeld(resources') /\ Coherent(state', resources', chains')
      BY <2>2, <2>5, SelectSubscriptionStep
    <2> QED
      BY <2>3, <2>4, <2>5
  <1>7. CASE SubscriptionListed(s)
    <2>1. PICK names \in {{}, Stores} :
             Settle(s, [state EXCEPT !.phase = "ready", !.stores = Listing(s, names)],
                    resources)
      BY <1>7 DEF SubscriptionListed
    <2> DEFINE v == [state EXCEPT !.phase = "ready", !.stores = Listing(s, names)]
    <2>2. UpperPlace(chains[s].of) /\ state.store = None
      BY <1>1, <1>7 DEF SubscriptionListed, Listed, Fits, Above
    <2>3. UpperPlace(Listing(s, names).of) /\ None \notin Listing(s, names).names
      BY <2>2, NameAssumption DEF Listing
    <2>4. v.mode = state.mode /\ v.store = state.store /\ v.stores = Listing(s, names)
          /\ v.subs = state.subs
      BY <1>1, ViewFields DEF IsView
    <2>5. Settle(s, v, resources)
      BY <2>1
    <2> HIDE DEF v
    <2>6. BlankView(v)
      BY <1>1, <1>3, <2>2, <2>3, <2>4 DEF BlankView, Placed
    <2> QED
      BY <1>1, <1>4, <2>5, <2>6, BlankSettleStep
  <1> QED
    BY <1>5, <1>6, <1>7

\* What applyItems makes of the entries, the registry and the continuation.
LEMMA PageListedSettles ==
    ASSUME NEW s \in Slots, PageListed(s)
    PROVE  LET chain == chains[s]
               page == [by |-> chain.who, of |-> chain.of,
                        n |-> IF chain.more = 0 THEN 1 ELSE chain.more]
               entries == IF chain.more = 0 THEN <<page>> ELSE Append(state.entries, page)
           IN  \E next :
                 Settle(s, [state EXCEPT !.phase = "ready", !.error = "none",
                                !.path = Path(resources.container, resources.folder),
                                !.entries = entries],
                        [resources EXCEPT !.next = next,
                            !.registry = IF chain.more = 0 THEN {page} ELSE @ \cup {page},
                            !.fresh = IF state.mode = "public" THEN "fresh" ELSE @])
  BY Zenon DEF PageListed

LEMMA AppendStarts ==
    ASSUME NEW entries, NEW page, FromNoSession(entries), entries # <<>>
    PROVE  Append(entries, page) # <<>> /\ Append(entries, page)[1] = entries[1]
  <1>1. PICK S : entries \in Seq(S)
    BY DEF FromNoSession
  <1> DEFINE T == S \cup {page}
  <1>2. entries \in Seq(T) /\ page \in T
    BY <1>1
  <1> HIDE DEF T
  <1>3. Len(entries) \in Nat /\ Len(entries) # 0
    BY <1>2
  <1>4. Append(entries, page) \in Seq(T) /\ Len(Append(entries, page)) = Len(entries) + 1
    BY <1>2
  <1>5. Append(entries, page)[1] = entries[1]
    BY <1>2, <1>3
  <1> QED
    BY <1>3, <1>4, <1>5

LEMMA PageListedStep ==
    ASSUME LInv, NEW s \in Slots, PageListed(s)
    PROVE  IsHeld(resources') /\ Coherent(state', resources', chains')
  <1> DEFINE chain == chains[s]
             page == [by |-> chain.who, of |-> chain.of,
                      n |-> IF chain.more = 0 THEN 1 ELSE chain.more]
             entries == IF chain.more = 0 THEN <<page>> ELSE Append(state.entries, page)
             v == [state EXCEPT !.phase = "ready", !.error = "none",
                          !.path = Path(resources.container, resources.folder),
                          !.entries = entries]
             Held(next) == [resources EXCEPT !.next = next,
                            !.registry = IF chain.more = 0 THEN {page} ELSE @ \cup {page},
                            !.fresh = IF state.mode = "public" THEN "fresh" ELSE @]
  <1>1. PICK next : Settle(s, v, Held(next))
    BY PageListedSettles
  <1> DEFINE h == Held(next)
  <1>2. /\ IsHeld(h) /\ h.container = resources.container /\ h.folder = resources.folder
        /\ h.registry = IF chain.more = 0 THEN {page} ELSE resources.registry \cup {page}
    BY Places DEF LInv, IsHeld
  <1>3. /\ v.mode = state.mode /\ v.public = state.public /\ v.tenant = state.tenant
        /\ v.subs = state.subs /\ v.store = state.store /\ v.stores = state.stores
        /\ v.entries = entries
    BY SameViews, ViewFields DEF IsView
  <1>4. Settle(s, v, h)
    BY <1>1
  <1>5. Placed(state, resources) /\ \A t \in Slots : Fits(chains[t], state, resources)
    BY DEF LInv, Coherent
  <1>6. chain.cur /\ chain.stage \in {"account", "containers", "location"}
    BY DEF PageListed, Listed, IsCurrent
  <1>7. page.of = chain.of
    OBVIOUS
  <1>8. chain.more = 0 => entries # <<>> /\ entries[1] = page
    OBVIOUS
  <1>9. chain.more # 0 => entries = Append(state.entries, page)
    OBVIOUS
  <1> HIDE DEF chain, page, entries, v, h, Held
  <1>10. TargetOf(v) = TargetOf(state) /\ PublicPlace(v, h) = PublicPlace(state, resources)
    BY <1>2, <1>3 DEF TargetOf, PublicPlace
  <1>11. ASSUME NEW of, At(of, state, resources) PROVE At(of, v, h)
    BY <1>2, <1>10, <1>11 DEF At
  <1>12. Fits(chain, state, resources)
    BY <1>5 DEF chain
  <1>13. At(page.of, state, resources)
    BY <1>6, <1>7, <1>12 DEF Fits
  <1>14. \A p \in h.registry : At(p.of, v, h)
    BY <1>2, <1>5, <1>11, <1>13 DEF Placed
  <1>15. state.mode = "public" => StartsHere(v, h)
    <2> SUFFICES ASSUME state.mode = "public" PROVE StartsHere(v, h)
      OBVIOUS
    <2>1. chain.of = PublicPlace(v, h) /\ (chain.more # 0 => StartsHere(state, resources))
      BY <1>6, <1>10, <1>12 DEF Fits
    <2>2. FromNoSession(state.entries)
      BY DEF LInv, QInv, PublicApart, IsPublicView
    <2>3. CASE chain.more = 0
      BY <1>3, <1>7, <1>8, <2>1, <2>3 DEF StartsHere
    <2>4. CASE chain.more # 0
      <3>1. entries # <<>> /\ entries[1] = state.entries[1]
        BY <1>9, <2>1, <2>2, <2>4, AppendStarts DEF StartsHere
      <3> QED
        BY <1>3, <1>10, <2>1, <2>4, <3>1 DEF StartsHere
    <2> QED
      BY <2>3, <2>4
  <1>16. Placed(v, h)
    BY <1>2, <1>3, <1>5, <1>14, <1>15, <1>12, <1>6 DEF Placed, Fits
  <1>17. ASSUME NEW t \in Slots PROVE Fits(chains[t], v, h)
    <2>1. Fits(chains[t], state, resources)
      BY <1>5
    <2> QED
      BY <1>3, <1>10, <1>11, <1>15, <2>1 DEF Fits
  <1> QED
    BY <1>2, <1>3, <1>4, <1>16, <1>17, SettleStep DEF Coherent

LEMMA ProvedStep ==
    ASSUME LInv, NEW s \in Slots, Proved(s)
    PROVE  IsHeld(resources') /\ Coherent(state', resources', chains')
  <1> DEFINE d == [chains[s] EXCEPT !.at = "proved"]
  <1>1. chains' = [chains EXCEPT ![s] = d] /\ UNCHANGED << state, resources >>
    BY DEF Proved, view
  <1>2. d.of = chains[s].of /\ d.stage = chains[s].stage /\ d.cur = chains[s].cur
        /\ d.more = chains[s].more
    BY SameViews, ChainFields DEF AreChains, IsChain
  <1> HIDE DEF d
  <1>3. Fits(d, state, resources)
    BY <1>2 DEF LInv, Coherent, Fits, Above
  <1> QED
    BY <1>1, <1>3, MoveStep

LEMMA ReconciledStep ==
    ASSUME LInv, NEW s \in Slots, Reconciled(s)
    PROVE  IsHeld(resources') /\ Coherent(state', resources', chains')
  <1>1. \/ /\ chains' = [chains EXCEPT ![s] = IdleChain]
           /\ UNCHANGED << state, resources >>
        \/ /\ chains' = [chains EXCEPT ![s] = IdleChain]
           /\ state' = [state EXCEPT !.identity = chains[s].who]
           /\ UNCHANGED resources
        \/ Rediscover(s, None, FALSE)
        \/ SettleSignedOut(s, Superseded)
    BY Zenon DEF Reconciled, view
  <1>2. ASSUME NEW v, NEW r PROVE Fits(IdleChain, v, r)
    BY Places, OvertakenFits
  <1>3. CASE /\ chains' = [chains EXCEPT ![s] = IdleChain]
             /\ UNCHANGED << state, resources >>
    BY <1>2, <1>3, MoveStep
  <1>4. CASE /\ chains' = [chains EXCEPT ![s] = IdleChain]
             /\ state' = [state EXCEPT !.identity = chains[s].who]
             /\ UNCHANGED resources
    <2>1. Alike(state, state') /\ state'.phase = state.phase
      BY <1>4, SameViews, ViewFields DEF IsView, Alike
    <2>2. Placed(state, resources) /\ \A t \in Slots : Fits(chains[t], state, resources)
      BY DEF LInv, Coherent
    <2>3. Placed(state', resources)
      BY <2>1, <2>2, AlikePlaced DEF Placed, Alike
    <2>4. \A t \in Slots : Fits(chains[t], state', resources)
      BY <2>1, <2>2, AlikeFits
    <2> QED
      BY <1>2, <1>4, <2>3, <2>4, SameViews DEF AreChains, LInv, Coherent
  <1>5. CASE Rediscover(s, None, FALSE)
    BY <1>5, RediscoverStep
  <1>6. CASE SettleSignedOut(s, Superseded)
    BY <1>6, SignedOutStep
  <1> QED
    BY <1>1, <1>3, <1>4, <1>5, <1>6

LEMMA ProviderEventStep ==
    ASSUME LInv, NEW s \in Slots, ProviderEvent(s)
    PROVE  IsHeld(resources') /\ Coherent(state', resources', chains')
  <1>1. CASE UNCHANGED << view, chains >>
    BY <1>1, UnchangedStep DEF view
  <1>2. CASE state.mode = "authenticated" /\ Reconcile(s, state, resources, FALSE)
    <2>1. state.mode # "public" /\ IsHeld(resources) /\ Coherent(state, resources, chains)
      BY <1>2 DEF LInv
    <2> QED
      BY <1>2, <2>1, ReconcileStep
  <1>3. CASE state' = Closed /\ resources' = NoResources /\ chains' = Superseded
    BY <1>3, BlankViews, SupersededAbove, NoResourcesStep
  <1> QED
    BY <1>1, <1>2, <1>3 DEF ProviderEvent

LEMMA NextCoherent ==
    ASSUME LInv, [Next]_vars
    PROVE  IsHeld(resources') /\ Coherent(state', resources', chains')
  <1> DEFINE Goal == IsHeld(resources') /\ Coherent(state', resources', chains')
  <1>1. ASSUME NEW s \in Slots, UserStep(s) PROVE Goal
    BY <1>1, UserStepStep
  <1>2. ASSUME NEW s \in Slots, Answer(s) PROVE Goal
    <2>1. CASE SilentSession(s) \/ NoSilentSession(s)
      BY <2>1, SessionAnswersStep
    <2>2. CASE Dropped(s) \/ StageFailed(s)
      BY <2>2, EndsStep
    <2>3. CASE DiscoverListed(s) \/ TenantListed(s) \/ SubscriptionListed(s)
      BY <2>3, HierarchyListedStep
    <2>4. CASE PageListed(s)
      BY <2>4, PageListedStep
    <2>5. CASE Proved(s)
      BY <2>5, ProvedStep
    <2>6. CASE Reconciled(s)
      BY <2>6, ReconciledStep
    <2> QED
      BY <1>2, <2>1, <2>2, <2>3, <2>4, <2>5, <2>6 DEF Answer
  <1>3. ASSUME NEW s \in Slots, Prompt(s) PROVE Goal
    BY <1>3, EndsStep DEF Prompt
  <1>4. ASSUME NEW s \in Slots, ProviderEvent(s) PROVE Goal
    BY <1>4, ProviderEventStep
  <1>5. CASE Instant
    BY <1>5, InstantStep
  <1>6. CASE UNCHANGED << state, resources, chains >>
    BY <1>6, UnchangedStep
  <1>7. ASSUME NEW a \in Accounts, SessionsChange(a) PROVE Goal
    BY <1>6, <1>7 DEF SessionsChange, view
  <1> QED
    BY <1>1, <1>2, <1>3, <1>4, <1>5, <1>6, <1>7 DEF Next, vars, view

(* For any hierarchy, accounts, changes of the sessions, stale clicks and   *)
(* reopenings: whatever is registered was listed in the container the       *)
(* browser is in, whatever is under way lists the place on display, and the *)
(* entries of a public folder that is ready are its own (applyItems,        *)
(* loadLocation, selectAccount, openEntry).                                 *)
THEOREM ListingsCohere == Spec => []LInv
  <1>1. Init => LInv
    <2> SUFFICES ASSUME Init PROVE LInv
      OBVIOUS
    <2>1. QInv
      BY InitOwned, ModesOfViews DEF Init, QInv, PublicApart
    <2>2. IsHeld(resources) /\ resources.registry = {}
      BY Places DEF Init, IsHeld
    <2>3. \A t \in Slots : Above(chains[t])
      BY Places DEF Init
    <2>4. BlankView(state)
      BY BlankViews DEF Init
    <2> QED
      BY <2>1, <2>2, <2>3, <2>4, BlankCoherent DEF LInv
  <1>2. LInv /\ [Next]_vars => LInv'
    <2> SUFFICES ASSUME LInv, [Next]_vars PROVE LInv'
      OBVIOUS
    <2>1. QInv'
      BY NextOwned, NextApart DEF LInv, QInv
    <2>2. IsHeld(resources') /\ Coherent(state', resources', chains')
      BY NextCoherent
    <2> QED
      BY <2>1, <2>2 DEF LInv
  <1> QED
    BY <1>1, <1>2, PTL DEF Spec

(* A file's URL names the storage account and the container that listed the *)
(* file, whatever was opened, chosen or refused between the listing and the *)
(* click (openEntry, selectedLocation).                                     *)
THEOREM FileUrlsAreTheirOwn == Spec => []FileUrlIsItsOwn
  <1>1. LInv => FileUrlIsItsOwn
    <2> SUFFICES ASSUME LInv, FolderUrl # Nowhere, state.picked \in resources.registry
                 PROVE  [state.picked.of EXCEPT !.folder = FolderUrl.folder] = FolderUrl
      BY DEF FileUrlIsItsOwn
    <2> DEFINE of == state.picked.of
    <2>1. /\ Target # Nowhere
          /\ FolderUrl = [Target EXCEPT !.container = resources.container,
                                        !.folder = resources.folder]
      BY DEF FolderUrl
    <2>2. At(of, state, resources) /\ Target = TargetOf(state) /\ IsPlace(Target)
      BY TargetIsOnDisplay, TargetPlace DEF LInv, Coherent, Placed, UpperPlace
    <2>3. /\ IsPlace(of) /\ of.tenant = Target.tenant /\ of.sub = Target.sub
          /\ of.store = Target.store /\ of.container = resources.container
      BY <2>1, <2>2 DEF At
    <2> HIDE DEF of
    <2>4. FolderUrl.folder = resources.folder
      BY <2>1, <2>2 DEF IsPlace, PlaceFields
    <2>5. [of EXCEPT !.folder = resources.folder]
             = [Target EXCEPT !.container = resources.container,
                              !.folder = resources.folder]
      BY <2>2, <2>3 DEF IsPlace, PlaceFields
    <2> QED
      BY <2>1, <2>4, <2>5 DEF of
  <1> QED
    BY <1>1, ListingsCohere, PTL

(* A public folder is offered as a source only after its own listing        *)
(* succeeded: no other listing, no failure and no late refresh mark of the  *)
(* signed-in browser makes it ready (currentFolderLocation).                *)
THEOREM PublicFoldersAreListed == Spec => []PublicFolderIsListed
  <1>1. LInv => PublicFolderIsListed
    <2> SUFFICES ASSUME LInv, state.mode = "public", FolderUrl # Nowhere
                 PROVE  state.entries # <<>> /\ state.entries[1].of = FolderUrl
      BY DEF PublicFolderIsListed
    <2>1. /\ Target # Nowhere /\ resources.fresh # "never"
          /\ FolderUrl = [Target EXCEPT !.container = resources.container,
                                        !.folder = resources.folder]
      BY DEF FolderUrl, PublicReady
    <2>2. Target = [Nowhere EXCEPT !.store = state.public]
      BY <2>1, TargetPlace
    <2>3. FolderUrl = PublicPlace(state, resources)
      BY <2>1, <2>2 DEF PublicPlace
    <2> QED
      BY <2>1, <2>3 DEF LInv, Coherent, Placed, StartsHere
  <1> QED
    BY <1>1, ListingsCohere, PTL

-----------------------------------------------------------------------------
(* The spinner, and what a retry finds.                                    *)

\* Views a retry finds the same in.
Same(v, w) ==
    /\ w.mode = v.mode /\ w.public = v.public
    /\ w.tenants = v.tenants /\ w.tenant = v.tenant /\ w.subs = v.subs /\ w.sub = v.sub
    /\ w.stores = v.stores /\ w.store = v.store

LEMMA SameRetriable ==
    ASSUME NEW v, NEW w, NEW r, NEW q, Same(v, w), Retriable(v, r),
           q.retry = r.retry, q.container = r.container
    PROVE  Retriable(w, q)
  <1>1. TargetOf(w) = TargetOf(v)
    BY DEF Same, TargetOf
  <1> QED
    BY <1>1 DEF Same, Retriable

LEMMA DiscoverRetriable ==
    ASSUME NEW r, r.retry = "discover"
    PROVE  /\ r.retry \in {"discover"} \cup Stages
           /\ \A v : Retriable(v, r)
           /\ \A c : Follows(c, r)
  BY DEF Retriable, Follows

LEMMA RetryOfNothing == NoResources.retry = "discover"
  BY DEF NoResources

LEMMA VFacts ==
    ASSUME VInv
    PROVE  /\ IsView(state) /\ AreChains(chains) /\ IsHeld(resources) /\ LInv
           /\ resources.retry \in {"discover"} \cup Stages
           /\ state.phase = "loading" => \E t \in Slots : Stops(chains[t])
           /\ state.mode = "authenticated" =>
                 Retriable(state, resources) /\ \A t \in Slots : Follows(chains[t], resources)
           /\ \A kind : Same(state, Failed(state, kind)) /\ Failed(state, kind).phase = "error"
           /\ state.mode \in {"authenticated", "public"}
  <1>1. IsView(state) /\ AreChains(chains)
    BY SameViews DEF VInv
  <1>2. \A kind : Same(state, Failed(state, kind)) /\ Failed(state, kind).phase = "error"
    BY <1>1, ViewFields DEF IsView, Same, Failed
  <1> QED
    BY <1>1, <1>2 DEF VInv, Usable, LInv, Coherent, Placed

\* Steps that forget everything.
LEMMA ForgottenUsable ==
    ASSUME resources' = NoResources,
           state'.phase = "loading" => \E t \in Slots : Stops(chains'[t])
    PROVE  Usable(state', resources', chains')
  BY RetryOfNothing, DiscoverRetriable DEF Usable

\* Steps that show the same lists and do not start the spinner.
LEMMA SameUsable ==
    ASSUME VInv, Same(state, state'), state'.phase # "loading",
           resources'.retry = resources.retry, resources'.container = resources.container,
           chains' = chains \/ \A t \in Slots : chains'[t].cur = FALSE
    PROVE  Usable(state', resources', chains')
  <1>1. state'.mode = "authenticated" => Retriable(state', resources')
    BY VFacts, SameRetriable DEF Same
  <1>2. state'.mode = "authenticated" => \A t \in Slots : Follows(chains'[t], resources')
    BY VFacts DEF Follows, Same
  <1> QED
    BY <1>1, <1>2, VFacts DEF Usable

LEMMA FailedUsable ==
    ASSUME VInv, NEW kind, state' = Failed(state, kind), UNCHANGED << chains, resources >>
    PROVE  Usable(state', resources', chains')
  BY VFacts, SameUsable

LEMMA UnchangedUsable ==
    ASSUME VInv, UNCHANGED << state, chains, resources >>
    PROVE  Usable(state', resources', chains')
  BY DEF VInv

LEMMA RediscoverUsable ==
    ASSUME VInv, NEW s \in Slots, NEW pinned, NEW marks, Rediscover(s, pinned, marks)
    PROVE  Usable(state', resources', chains')
  <1> DEFINE c == [IdleChain EXCEPT !.stage = "discover", !.at = "session", !.cur = TRUE,
                            !.marks = marks, !.who = pinned]
  <1>1. Stops(c)
    BY DEF Stops, IdleChain
  <1>2. chains' = [Superseded EXCEPT ![s] = c] /\ resources' = NoResources
    BY DEF Rediscover
  <1> HIDE DEF c
  <1>3. Stops(chains'[s])
    BY <1>1, <1>2, VFacts, SupersededChains DEF AreChains
  <1> QED
    BY <1>2, <1>3, ForgottenUsable

LEMMA LoadUsable ==
    ASSUME VInv, NEW s \in Slots, NEW c, NEW kept, NEW pending, NEW shown, NEW held,
           IsChain(c), IsView(shown), c.stage # "reconcile",
           held.retry \in {"discover"} \cup Stages,
           shown.mode = "authenticated" =>
              /\ Retriable(shown, held)
              /\ c.stage = "discover" => held.retry = "discover"
              /\ c.stage \in {"tenant", "subscription"} => held.retry = c.stage,
           Load(s, c, kept, pending, shown, held)
    PROVE  Usable(state', resources', chains')
  <1>1. CASE pending /\ kept = NoOp /\ shown.mode = "authenticated"
    <2>1. Rediscover(s, account, c.marks)
      BY <1>1 DEF Load
    <2> QED
      BY <2>1, RediscoverUsable
  <1>2. CASE ~(pending /\ kept = NoOp /\ shown.mode = "authenticated")
    <2> DEFINE d == [c EXCEPT !.cur = TRUE]
    <2>1. state' = Loading(shown) /\ resources' = held
          /\ chains' = [Superseded EXCEPT ![s] = d]
      BY <1>2 DEF Load, Loading
    <2>2. d.stage = c.stage /\ d.cur
      BY ChainFields DEF IsChain
    <2>3. Same(shown, Loading(shown))
      BY ViewFields DEF IsView, Same, Loading
    <2> HIDE DEF d
    <2>4. AreChains(Superseded) /\ \A t \in Slots : Superseded[t].cur = FALSE
      BY VFacts, SupersededChains
    <2>5. chains'[s] = d /\ \A t \in Slots \ {s} : chains'[t].cur = FALSE
      BY <2>1, <2>4 DEF AreChains
    <2>6. Stops(chains'[s])
      BY <2>2, <2>5 DEF Stops
    <2>7. state'.mode = "authenticated" => Retriable(state', resources')
      BY <2>1, <2>3, SameRetriable DEF Same
    <2>8. state'.mode = "authenticated" => \A t \in Slots : Follows(chains'[t], resources')
      BY <2>1, <2>2, <2>3, <2>5 DEF Follows, Same
    <2> QED
      BY <2>1, <2>6, <2>7, <2>8 DEF Usable
  <1> QED
    BY <1>1, <1>2

\* A chain ends or starts a reconciliation, and the view is as given.
LEMMA ReplacedUsable ==
    ASSUME VInv, NEW s \in Slots, NEW d, NEW shown, NEW held, ~Stops(d),
           ~(d.cur /\ d.stage \in {"discover", "tenant", "subscription"}),
           state' = shown, resources' = held, chains' = [chains EXCEPT ![s] = d],
           held.retry \in {"discover"} \cup Stages,
           shown.phase = "loading" => state.phase = "loading" /\ ~Stops(chains[s]),
           shown.mode = "authenticated" =>
              Retriable(shown, held) /\ \A t \in Slots : Follows(chains[t], held)
    PROVE  Usable(state', resources', chains')
  <1>1. chains'[s] = d /\ \A t \in Slots \ {s} : chains'[t] = chains[t]
    BY VFacts DEF AreChains
  <1>2. shown.phase = "loading" => \E t \in Slots : Stops(chains'[t])
    BY <1>1, VFacts
  <1>3. Follows(d, held)
    BY DEF Follows
  <1> QED
    BY <1>1, <1>2, <1>3 DEF Usable

LEMMA ReconcileUsable ==
    ASSUME VInv, NEW s \in Slots, NEW shown, NEW held, NEW pending,
           held.retry \in {"discover"} \cup Stages,
           shown.phase = "loading" => state.phase = "loading" /\ ~Stops(chains[s]),
           shown.mode = "authenticated" =>
              Retriable(shown, held) /\ \A t \in Slots : Follows(chains[t], held),
           Reconcile(s, shown, held, pending)
    PROVE  Usable(state', resources', chains')
  <1>1. CASE account = None
    BY <1>1, RediscoverUsable DEF Reconcile
  <1>2. CASE account # None
    <2> DEFINE d == [IdleChain EXCEPT !.stage = "reconcile", !.at = "session",
                        !.cur = TRUE, !.live = TRUE, !.who = account]
    <2>1. d.stage = "reconcile"
      BY DEF IdleChain
    <2>2. chains' = [chains EXCEPT ![s] = d] /\ state' = shown /\ resources' = held
      BY <1>2 DEF Reconcile
    <2> HIDE DEF d
    <2>3. ~Stops(d) /\ ~(d.cur /\ d.stage \in {"discover", "tenant", "subscription"})
      BY <2>1 DEF Stops
    <2> QED
      BY <2>2, <2>3, ReplacedUsable
  <1> QED
    BY <1>1, <1>2

LEMMA IdleStopsNothing == ~Stops(IdleChain) /\ IdleChain.cur = FALSE
  BY DEF Stops, IdleChain

LEMMA SettleUsable ==
    ASSUME VInv, NEW s \in Slots, NEW shown, NEW held, IsHeld(held),
           held.retry \in {"discover"} \cup Stages,
           shown.phase = "loading" => state.phase = "loading" /\ ~Stops(chains[s]),
           shown.mode = "authenticated" =>
              Retriable(shown, held) /\ \A t \in Slots : Follows(chains[t], held),
           Settle(s, shown, held)
    PROVE  Usable(state', resources', chains')
  <1> DEFINE marked == IF chains[s].marks /\ shown.phase = "ready"
                       THEN [held EXCEPT !.fresh = "fresh"] ELSE held
  <1>1. marked.retry = held.retry /\ marked.container = held.container
    BY Places DEF IsHeld
  <1>2. Same(shown, shown)
    BY DEF Same
  <1>3. /\ op.slot = s /\ op.changed => Reconcile(s, shown, marked, deferred)
        /\ ~(op.slot = s /\ op.changed) =>
              /\ state' = shown /\ resources' = marked
              /\ chains' = [chains EXCEPT ![s] = IdleChain]
    BY Zenon DEF Settle
  <1> HIDE DEF marked
  <1>4. shown.mode = "authenticated" =>
           Retriable(shown, marked) /\ \A t \in Slots : Follows(chains[t], marked)
    BY <1>1, <1>2, SameRetriable DEF Follows
  <1>5. CASE op.slot = s /\ op.changed
    BY <1>1, <1>3, <1>4, <1>5, ReconcileUsable
  <1>6. CASE ~(op.slot = s /\ op.changed)
    BY <1>1, <1>3, <1>4, <1>6, IdleStopsNothing, ReplacedUsable
  <1> QED
    BY <1>5, <1>6

\* The chain ends, and the view stays, or tells of the failure.
LEMMA FailedSettleUsable ==
    ASSUME VInv, NEW s \in Slots, NEW kind, Settle(s, Failed(state, kind), resources)
    PROVE  Usable(state', resources', chains')
  <1> DEFINE shown == Failed(state, kind)
  <1>1. Same(state, shown) /\ shown.phase = "error"
    BY VFacts
  <1> HIDE DEF shown
  <1>2. shown.mode = "authenticated" =>
           Retriable(shown, resources) /\ \A t \in Slots : Follows(chains[t], resources)
    BY <1>1, VFacts, SameRetriable DEF Same
  <1> QED
    BY <1>1, <1>2, VFacts, SettleUsable DEF shown

LEMMA DroppedUsable ==
    ASSUME VInv, NEW s \in Slots, ~IsCurrent(s), Settle(s, state, resources)
    PROVE  Usable(state', resources', chains')
  <1>1. ~Stops(chains[s])
    BY DEF Stops, IsCurrent
  <1> QED
    BY <1>1, VFacts, SettleUsable

LEMMA SignedOutUsable ==
    ASSUME VInv, NEW s, NEW cs, SettleSignedOut(s, cs)
    PROVE  Usable(state', resources', chains')
  <1>1. SignedOut.phase # "loading"
    BY DEF SignedOut, Closed
  <1> QED
    BY <1>1, ForgottenUsable DEF SettleSignedOut

-----------------------------------------------------------------------------
(* The stages.                                                             *)

LEMMA DiscoverUsable ==
    ASSUME VInv, NEW s \in Slots, NEW asks, NEW pinned, NEW kept, NEW pending, NEW shown,
           NEW held, IsView(shown), IsHeld(held),
           Discover(s, asks, pinned, kept, pending, shown, held)
    PROVE  Usable(state', resources', chains')
  <1> DEFINE c == Ask("discover", asks, FALSE, pinned, Nowhere)
             h == [held EXCEPT !.retry = "discover"]
  <1>1. IsChain(c) /\ c.stage = "discover"
    BY ChainFields DEF Ask, IsChain, IdleChain
  <1>2. h.retry = "discover"
    BY Places DEF IsHeld
  <1>3. Load(s, c, kept, pending, shown, h)
    BY DEF Discover
  <1> HIDE DEF c, h
  <1> QED
    BY <1>1, <1>2, <1>3, DiscoverRetriable, LoadUsable

LEMMA SelectTenantUsable ==
    ASSUME VInv, NEW s \in Slots, NEW tenant, NEW asks, NEW marks, NEW kept, NEW pending,
           NEW shown, IsView(shown), tenant \in shown.tenants.names,
           SelectTenant(s, tenant, asks, marks, kept, pending, shown)
    PROVE  Usable(state', resources', chains')
  <1> DEFINE v == [shown EXCEPT !.tenant = tenant, !.subs = NoList, !.sub = None,
                       !.stores = NoList, !.store = None, !.path = <<>>, !.entries = <<>>]
             c == Ask("tenant", asks, marks, account, [Nowhere EXCEPT !.tenant = tenant])
             h == [resources EXCEPT !.retry = "tenant"]
  <1>1. IsView(v) /\ v.tenant = tenant /\ v.tenants = shown.tenants
    BY ViewFields DEF IsView
  <1>2. IsChain(c) /\ c.stage = "tenant"
    BY ChainFields DEF Ask, IsChain, IdleChain
  <1>3. h.retry = "tenant"
    BY VFacts, Places DEF IsHeld
  <1>4. Load(s, c, kept, pending, v, h)
    BY DEF SelectTenant
  <1> HIDE DEF v, c, h
  <1>5. Retriable(v, h) /\ h.retry \in {"discover"} \cup Stages
    BY <1>1, <1>3 DEF Retriable, Stages
  <1> QED
    BY <1>1, <1>2, <1>3, <1>4, <1>5, LoadUsable

LEMMA SelectSubscriptionUsable ==
    ASSUME VInv, NEW s \in Slots, NEW sub, NEW asks, NEW marks, NEW kept, NEW pending,
           NEW shown, IsView(shown), sub \in shown.subs.names,
           SelectSubscription(s, sub, asks, marks, kept, pending, shown)
    PROVE  Usable(state', resources', chains')
  <1> DEFINE v == [shown EXCEPT !.sub = sub, !.stores = NoList, !.store = None,
                       !.path = <<>>, !.entries = <<>>]
             of == [shown.subs.of EXCEPT !.sub = sub]
             c == Ask("subscription", asks, marks, account, of)
             h == [resources EXCEPT !.retry = "subscription"]
  <1>1. IsView(v) /\ v.sub = sub /\ v.subs = shown.subs
    BY ViewFields DEF IsView
  <1>2. IsChain(c) /\ c.stage = "subscription"
    <2> HIDE DEF of
    <2> QED
      BY ChainFields DEF Ask, IsChain, IdleChain
  <1>3. h.retry = "subscription"
    BY VFacts, Places DEF IsHeld
  <1>4. Load(s, c, kept, pending, v, h)
    BY DEF SelectSubscription
  <1> HIDE DEF v, c, h
  <1>5. Retriable(v, h) /\ h.retry \in {"discover"} \cup Stages
    BY <1>1, <1>3 DEF Retriable, Stages
  <1> QED
    BY <1>1, <1>2, <1>3, <1>4, <1>5, LoadUsable

LEMMA SelectAccountUsable ==
    ASSUME VInv, NEW s \in Slots, NEW store, NEW asks, NEW kept, NEW pending,
           state.mode = "authenticated", store \in state.stores.names,
           SelectAccount(s, store, asks, kept, pending)
    PROVE  Usable(state', resources', chains')
  <1> DEFINE v == [state EXCEPT !.store = store, !.path = <<>>, !.entries = <<>>,
                       !.picked = None]
             of == [state.stores.of EXCEPT !.store = store]
             c == Ask("account", asks, FALSE, account, of)
             h == [resources EXCEPT !.retry = "account", !.registry = {}, !.next = 0,
                       !.container = None, !.folder = None]
  <1>1. UpperPlace(state.stores.of) /\ None \notin state.stores.names
    BY DEF VInv, LInv, Coherent, Placed
  <1>2. of.store = store /\ store # None
    BY <1>1 DEF UpperPlace, IsPlace, PlaceFields
  <1>3. of # Nowhere
    BY <1>2 DEF Nowhere
  <1>4. IsView(v) /\ v.mode = state.mode /\ v.stores = state.stores /\ v.store = store
    BY VFacts, ViewFields DEF IsView
  <1>5. IsChain(c) /\ c.stage = "account"
    <2> HIDE DEF of
    <2> QED
      BY ChainFields DEF Ask, IsChain, IdleChain
  <1>6. h.retry = "account"
    BY VFacts, Places DEF IsHeld
  <1>7. Load(s, c, kept, pending, v, h)
    BY DEF SelectAccount
  <1> HIDE DEF v, c, h
  <1>8. TargetOf(v) = of
    BY <1>4 DEF TargetOf
  <1> HIDE DEF of
  <1>9. Retriable(v, h) /\ h.retry \in {"discover"} \cup Stages
    BY <1>3, <1>6, <1>8 DEF Retriable, Stages
  <1> QED
    BY <1>4, <1>5, <1>6, <1>7, <1>9, LoadUsable

LEMMA LoadLocationUsable ==
    ASSUME VInv, NEW s \in Slots, NEW container, NEW folder, NEW more, NEW asks,
           NEW kept, NEW pending, Complete(container),
           LoadLocation(s, container, folder, more, asks, kept, pending)
    PROVE  Usable(state', resources', chains')
  <1> DEFINE public == state.mode = "public"
             shown == [state EXCEPT !.path = Path(container, folder)]
             held == [resources EXCEPT !.retry = "location", !.container = container,
                                       !.folder = folder]
             who == IF public THEN Anonymous ELSE account
             of == [Target EXCEPT !.container = container, !.folder = folder]
             a == Ask("location", asks, FALSE, who, of)
             c == [a EXCEPT !.at = IF public THEN "list" ELSE "session", !.more = more]
             v == IF more # 0 THEN shown ELSE [shown EXCEPT !.entries = <<>>, !.picked = None]
             h == IF more # 0 THEN held
                  ELSE [held EXCEPT !.registry = {}, !.next = 0,
                                    !.fresh = IF public THEN "never" ELSE @]
  <1>1. IsView(v) /\ Same(state, v)
    BY VFacts, ViewFields DEF IsView, Same
  <1>2. h.retry = "location" /\ h.container = container
    BY VFacts, Places DEF IsHeld
  <1>3. IsChain(a) /\ a.stage = "location"
    <2> HIDE DEF of, who
    <2> QED
      BY ChainFields DEF Ask, IsChain, IdleChain
  <1> HIDE DEF a
  <1>4. IsChain(c) /\ c.stage = "location"
    BY <1>3, ChainFields DEF IsChain
  <1>5. Load(s, c, kept, pending, v, h)
    BY DEF LoadLocation, a
  <1> HIDE DEF shown, held, v, h, c
  <1>6. TargetOf(v) = Target
    BY <1>1, TargetIsOnDisplay DEF TargetOf, Same
  <1>7. v.mode = "authenticated" => Retriable(v, h)
    BY <1>1, <1>2, <1>6 DEF Retriable, Complete, Same
  <1>8. h.retry \in {"discover"} \cup Stages
    BY <1>2 DEF Stages
  <1> QED
    BY <1>1, <1>4, <1>5, <1>7, <1>8, LoadUsable

-----------------------------------------------------------------------------
(* The requests of the user.                                               *)

LEMMA RefreshUsable ==
    ASSUME VInv, NEW s \in Slots, RefreshPublic(s) \/ RefreshResources(s)
    PROVE  Usable(state', resources', chains')
  <1>1. CASE RefreshPublic(s) /\ Complete(resources.container)
    <2>1. LoadLocation(s, resources.container, resources.folder, 0, FALSE, NoOp, Inherited)
      BY <1>1 DEF RefreshPublic
    <2> QED
      BY <1>1, <2>1, LoadLocationUsable
  <1>2. CASE RefreshPublic(s) /\ ~Complete(resources.container)
    <2>1. state' = Failed(state, "other") /\ UNCHANGED << chains, resources >>
      BY <1>2 DEF RefreshPublic
    <2> QED
      BY <2>1, FailedUsable
  <1>3. CASE RefreshResources(s) /\ (needsConnect \/ account = None)
    <2>1. state' = SignedOut /\ resources' = NoResources
      BY <1>3 DEF RefreshResources
    <2>2. SignedOut.phase # "loading"
      BY DEF SignedOut, Closed
    <2> QED
      BY <2>1, <2>2, ForgottenUsable
  <1>4. CASE RefreshResources(s) /\ ~(needsConnect \/ account = None)
    <2> DEFINE v == [Closed EXCEPT !.open = TRUE, !.identity = state.identity]
    <2>1. Discover(s, FALSE, account, NoOp, Inherited, v, NoResources)
      BY <1>4 DEF RefreshResources
    <2>2. IsView(v) /\ IsHeld(NoResources)
      BY DEF IsView, IsHeld
    <2> HIDE DEF v
    <2> QED
      BY <2>1, <2>2, DiscoverUsable
  <1> QED
    BY <1>1, <1>2, <1>3, <1>4

LEMMA OpenUsable ==
    ASSUME VInv, NEW s \in Slots, Open(s)
    PROVE  Usable(state', resources', chains')
  <1>1. CASE RefreshPublic(s) \/ RefreshResources(s)
    BY <1>1, RefreshUsable
  <1>2. CASE state' = SignedOut /\ resources' = NoResources
    <2>1. SignedOut.phase # "loading"
      BY DEF SignedOut, Closed
    <2> QED
      BY <1>2, <2>1, ForgottenUsable
  <1>3. CASE /\ UNCHANGED << chains, resources >>
             /\ \/ state' = [state EXCEPT !.open = TRUE, !.phase = "error"]
                \/ state' = [state EXCEPT !.open = TRUE, !.phase = "ready"]
                \/ state' = [state EXCEPT !.open = TRUE, !.phase = "ready", !.error = "none"]
    <2>1. Same(state, state') /\ state'.phase # "loading"
      BY <1>3, VFacts, ViewFields DEF IsView, Same
    <2> QED
      BY <1>3, <2>1, SameUsable
  <1> QED
    BY <1>1, <1>2, <1>3 DEF Open

LEMMA ConnectUsable ==
    ASSUME VInv, NEW s \in Slots, Connect(s)
    PROVE  Usable(state', resources', chains')
  <1> DEFINE leaves == state.mode = "public"
             kept == [slot |-> s, changed |-> op.changed \/ deferred]
             shown == IF leaves THEN SignedOut ELSE state
             held == IF leaves THEN NoResources ELSE resources
  <1>1. Discover(s, TRUE, account, kept, FALSE, shown, held)
    BY DEF Connect
  <1>2. IsView(shown) /\ IsHeld(held)
    BY VFacts, SignedOutIsView DEF IsHeld
  <1> HIDE DEF kept, shown, held
  <1> QED
    BY <1>1, <1>2, DiscoverUsable

LEMMA OpenPublicUsable ==
    ASSUME VInv, NEW s \in Slots, OpenPublic(s)
    PROVE  Usable(state', resources', chains')
  <1>1. CASE /\ state' = Failed([Closed EXCEPT !.mode = "public"], "other")
             /\ resources' = [NoResources EXCEPT !.retry = "location"] /\ chains' = Ended
    <2>1. state'.mode = "public" /\ state'.phase = "error"
      BY <1>1 DEF Failed, Closed
    <2>2. resources'.retry = "location"
      BY <1>1, Places
    <2> QED
      BY <2>1, <2>2 DEF Usable, Stages
  <1>2. ASSUME NEW store \in PublicStores, NEW container \in Containers,
               NEW folder \in OrNone(Folders), NEW a,
               PublicChoice(s, store, container, folder, a),
               resources' = [NoResources EXCEPT !.retry = "location",
                                !.container = container, !.folder = folder]
        PROVE  Usable(state', resources', chains')
    <2> DEFINE c == [a EXCEPT !.at = "list", !.cur = TRUE]
               of == [Nowhere EXCEPT !.store = store, !.container = container,
                                     !.folder = folder]
    <2>1. a = Ask("location", FALSE, FALSE, Anonymous, of)
      BY <1>2 DEF PublicChoice
    <2> HIDE DEF of
    <2>2. IsChain(a) /\ a.stage = "location"
      BY <2>1, ChainFields DEF Ask, IsChain, IdleChain
    <2>3. Stops(c)
      BY <2>2, ChainFields DEF IsChain, Stops
    <2>4. chains' = [Ended EXCEPT ![s] = c] /\ state'.mode = "public"
      BY <1>2 DEF PublicChoice, Closed
    <2> HIDE DEF c
    <2>5. Stops(chains'[s])
      BY <2>3, <2>4, VFacts, EndedChains DEF AreChains
    <2>6. resources'.retry = "location"
      BY <1>2, Places
    <2> QED
      BY <2>4, <2>5, <2>6 DEF Usable, Stages
  <1> QED
    BY <1>1, <1>2, OpenPublicHolds

LEMMA RetryUsable ==
    ASSUME VInv, NEW s \in Slots, Retry(s)
    PROVE  Usable(state', resources', chains')
  <1> DEFINE asks == state.mode = "authenticated" /\ Interactive
             kept == IF asks THEN [slot |-> s, changed |-> op.changed \/ deferred] ELSE NoOp
             pending == ~asks /\ Inherited
  <1>1. \/ /\ Complete(resources.container)
           /\ LoadLocation(s, resources.container, resources.folder, 0, asks, kept, pending)
        \/ UNCHANGED << view, chains, op, deferred >>
        \/ Discover(s, asks, account, kept, pending, state, resources)
        \/ /\ state.tenant \in state.tenants.names
           /\ SelectTenant(s, state.tenant, asks, FALSE, kept, pending, state)
        \/ /\ state.sub \in state.subs.names
           /\ SelectSubscription(s, state.sub, asks, FALSE, kept, pending, state)
        \/ /\ state.mode = "authenticated" /\ Target # Nowhere
           /\ SelectAccount(s, state.store, asks, kept, pending)
    BY Zenon DEF Retry
  <1> HIDE DEF asks, kept, pending
  <1>2. CASE /\ Complete(resources.container)
             /\ LoadLocation(s, resources.container, resources.folder, 0, asks, kept, pending)
    BY <1>2, LoadLocationUsable
  <1>3. CASE UNCHANGED << view, chains, op, deferred >>
    BY <1>3, UnchangedUsable DEF view
  <1>4. CASE Discover(s, asks, account, kept, pending, state, resources)
    BY <1>4, VFacts, DiscoverUsable
  <1>5. CASE /\ state.tenant \in state.tenants.names
             /\ SelectTenant(s, state.tenant, asks, FALSE, kept, pending, state)
    BY <1>5, VFacts, SelectTenantUsable
  <1>6. CASE /\ state.sub \in state.subs.names
             /\ SelectSubscription(s, state.sub, asks, FALSE, kept, pending, state)
    BY <1>6, VFacts, SelectSubscriptionUsable
  <1>7. CASE /\ state.mode = "authenticated" /\ Target # Nowhere
             /\ SelectAccount(s, state.store, asks, kept, pending)
    <2>1. state.store \in state.stores.names
      BY <1>7 DEF Target
    <2> QED
      BY <1>7, <2>1, SelectAccountUsable
  <1> QED
    BY <1>1, <1>2, <1>3, <1>4, <1>5, <1>6, <1>7

LEMMA ChoiceUsable ==
    ASSUME VInv, NEW s \in Slots,
           \/ \E tenant \in Tenants : ChooseTenant(s, tenant)
           \/ \E sub \in Subscriptions : ChooseSubscription(s, sub)
           \/ \E store \in Stores : ChooseAccount(s, store)
    PROVE  Usable(state', resources', chains')
  <1>1. ASSUME NEW tenant \in Tenants, ChooseTenant(s, tenant)
        PROVE  Usable(state', resources', chains')
    <2>1. SelectTenant(s, tenant, FALSE, FALSE, NoOp, Inherited, state)
          /\ tenant \in state.tenants.names
      BY <1>1 DEF ChooseTenant
    <2> QED
      BY <2>1, VFacts, SelectTenantUsable
  <1>2. ASSUME NEW sub \in Subscriptions, ChooseSubscription(s, sub)
        PROVE  Usable(state', resources', chains')
    <2>1. SelectSubscription(s, sub, FALSE, FALSE, NoOp, Inherited, state)
          /\ sub \in state.subs.names
      BY <1>2 DEF ChooseSubscription
    <2> QED
      BY <2>1, VFacts, SelectSubscriptionUsable
  <1>3. ASSUME NEW store \in Stores, ChooseAccount(s, store)
        PROVE  Usable(state', resources', chains')
    <2>1. SelectAccount(s, store, FALSE, NoOp, Inherited)
          /\ state.mode = "authenticated" /\ store \in state.stores.names
      BY <1>3 DEF ChooseAccount
    <2> QED
      BY <2>1, SelectAccountUsable
  <1> QED
    BY <1>1, <1>2, <1>3

LEMMA NavigateUsable ==
    ASSUME VInv, NEW s \in Slots, NavigateUp(s) \/ LoadMore(s)
    PROVE  Usable(state', resources', chains')
  <1>1. CASE NavigateUp(s)
    <2>1. LoadLocation(s, state.path[1], None, 0, FALSE, NoOp, Inherited)
          /\ Complete(state.path[1])
      BY <1>1 DEF NavigateUp
    <2> QED
      BY <2>1, LoadLocationUsable
  <1>2. CASE /\ Complete(resources.container)
             /\ LoadLocation(s, resources.container, resources.folder, resources.next,
                             FALSE, NoOp, Inherited)
    BY <1>2, LoadLocationUsable
  <1>3. ASSUME NEW a, a = Ask("containers", FALSE, FALSE, account, Target),
               Load(s, [a EXCEPT !.more = resources.next], NoOp, Inherited, state, resources)
        PROVE  Usable(state', resources', chains')
    <2> DEFINE c == [a EXCEPT !.more = resources.next]
    <2>1. IsChain(a) /\ a.stage = "containers"
      BY <1>3, ChainFields DEF Ask, IsChain, IdleChain
    <2>2. IsChain(c) /\ c.stage = "containers"
      BY <2>1, ChainFields DEF IsChain
    <2>3. Load(s, c, NoOp, Inherited, state, resources)
      BY <1>3
    <2> HIDE DEF c
    <2> QED
      BY <2>2, <2>3, VFacts, LoadUsable
  <1>4. LoadMore(s) =>
          \/ /\ Complete(resources.container)
             /\ LoadLocation(s, resources.container, resources.folder, resources.next,
                             FALSE, NoOp, Inherited)
          \/ \E a : /\ a = Ask("containers", FALSE, FALSE, account, Target)
                    /\ Load(s, [a EXCEPT !.more = resources.next], NoOp, Inherited,
                            state, resources)
          \/ state' = Failed(state, "other") /\ UNCHANGED << chains, resources >>
    BY Zenon DEF LoadMore
  <1>5. CASE state' = Failed(state, "other") /\ UNCHANGED << chains, resources >>
    BY <1>5, FailedUsable
  <1> QED
    BY <1>1, <1>2, <1>3, <1>4, <1>5, Zenon

LEMMA OpenFolderUsable ==
    ASSUME VInv, NEW s \in Slots, NEW page \in resources.registry,
           NEW container \in Containers, NEW folder, OpenFolder(s, page, container, folder)
    PROVE  Usable(state', resources', chains')
  <1>1. CASE Complete(container)
    <2>1. LoadLocation(s, container, folder, 0, FALSE, NoOp, Inherited)
      BY <1>1 DEF OpenFolder
    <2> QED
      BY <1>1, <2>1, LoadLocationUsable
  <1>2. CASE ~Complete(container)
    <2>1. /\ state' = Failed(state, "other") /\ chains' = chains
          /\ resources' = [resources EXCEPT !.container = container, !.folder = folder]
      BY <1>2 DEF OpenFolder
    <2>2. container # None
      BY NameAssumption
    <2>3. Same(state, state') /\ state'.phase = "error"
          /\ resources'.retry = resources.retry
      BY <2>1, VFacts, Places DEF IsHeld
    <2>4. TargetOf(state') = Target /\ TargetOf(state) = Target
      BY <2>3, TargetIsOnDisplay DEF TargetOf, Same
    <2>5. state.mode = "authenticated" => Retriable(state', resources')
      BY <1>2, <2>2, <2>3, <2>4, VFacts DEF Retriable, Complete, Same
    <2> QED
      BY <2>1, <2>3, <2>5, VFacts DEF Usable, Follows, Same
  <1> QED
    BY <1>1, <1>2

LEMMA UserStepUsable ==
    ASSUME VInv, NEW s \in Slots, UserStep(s)
    PROVE  Usable(state', resources', chains')
  <1>1. CASE Open(s) \/ Connect(s) \/ OpenPublic(s) \/ Refresh(s) \/ Retry(s)
    BY <1>1, OpenUsable, ConnectUsable, OpenPublicUsable, RefreshUsable, RetryUsable
    DEF Refresh
  <1>2. CASE NavigateUp(s) \/ LoadMore(s)
    BY <1>2, NavigateUsable
  <1>3. CASE \/ \E tenant \in Tenants : ChooseTenant(s, tenant)
             \/ \E sub \in Subscriptions : ChooseSubscription(s, sub)
             \/ \E store \in Stores : ChooseAccount(s, store)
    BY <1>3, ChoiceUsable
  <1>4. CASE \E page \in resources.registry, container \in Containers,
                folder \in OrNone(Folders) : OpenFolder(s, page, container, folder)
    BY <1>4, OpenFolderUsable
  <1> QED
    BY <1>1, <1>2, <1>3, <1>4 DEF UserStep

LEMMA InstantUsable ==
    ASSUME VInv, Instant
    PROVE  Usable(state', resources', chains')
  <1>1. SignedOut.phase # "loading" /\ Closed.phase # "loading"
    BY DEF SignedOut, Closed
  <1>2. CASE Disconnect \/ BrowseLocal
    BY <1>1, <1>2, ForgottenUsable DEF Disconnect, BrowseLocal
  <1>3. CASE Close
    <2>1. /\ chains' = Ended
          /\ \/ state' = Closed /\ resources' = NoResources
             \/ /\ state' = [state EXCEPT !.open = FALSE, !.phase = "closed"]
                /\ resources' = resources
      BY <1>3 DEF Close
    <2>2. CASE state' = Closed /\ resources' = NoResources
      BY <1>1, <2>2, ForgottenUsable
    <2>3. CASE /\ state' = [state EXCEPT !.open = FALSE, !.phase = "closed"]
               /\ resources' = resources
      <3>1. Same(state, state') /\ state'.phase = "closed"
        BY <2>3, VFacts, ViewFields DEF IsView, Same
      <3> QED
        BY <2>1, <2>3, <3>1, VFacts, EndedChains, SameUsable
    <2> QED
      BY <2>1, <2>2, <2>3
  <1>4. CASE StaleClick
    <2>1. state' = Failed(state, "other") /\ UNCHANGED << chains, resources >>
      BY <1>4 DEF StaleClick
    <2> QED
      BY <2>1, FailedUsable
  <1>5. CASE CacheExpires
    <2>1. /\ UNCHANGED << state, chains >>
          /\ resources' = [resources EXCEPT !.fresh = "stale"]
      BY <1>5 DEF CacheExpires
    <2>2. resources'.retry = resources.retry /\ resources'.container = resources.container
      BY <2>1, VFacts, Places DEF IsHeld
    <2>3. state.mode = "authenticated" => Retriable(state, resources')
      BY <2>2, VFacts, SameRetriable DEF Same
    <2> QED
      BY <2>1, <2>2, <2>3, VFacts DEF Usable, Follows
  <1>6. CASE \E page \in resources.registry : OpenFile(page)
    <2>1. PICK page \in resources.registry : OpenFile(page)
      BY <1>6
    <2>2. UNCHANGED << chains, resources >> /\ state' = [state EXCEPT !.picked = page]
      BY <2>1 DEF OpenFile
    <2>3. Same(state, state') /\ state'.phase = state.phase
      BY <2>2, VFacts, ViewFields DEF IsView, Same
    <2>4. state'.mode = "authenticated" => Retriable(state', resources')
      BY <2>2, <2>3, VFacts, SameRetriable DEF Same
    <2> QED
      BY <2>2, <2>3, <2>4, VFacts DEF Usable, Same
  <1> QED
    BY <1>2, <1>3, <1>4, <1>5, <1>6 DEF Instant

-----------------------------------------------------------------------------
(* The answers of the provider and of the listings.                        *)

\* A chain moves on in its stage, and the view stays.
LEMMA MoveUsable ==
    ASSUME VInv, NEW s \in Slots, NEW d, d.stage = chains[s].stage, d.cur = chains[s].cur,
           chains' = [chains EXCEPT ![s] = d], UNCHANGED << state, resources >>
    PROVE  Usable(state', resources', chains')
  <1>1. chains'[s] = d /\ \A t \in Slots \ {s} : chains'[t] = chains[t]
    BY VFacts DEF AreChains
  <1>2. \A t \in Slots : /\ Stops(chains'[t]) <=> Stops(chains[t])
                         /\ Follows(chains'[t], resources) <=> Follows(chains[t], resources)
    BY <1>1 DEF Stops, Follows
  <1> QED
    BY <1>2, VFacts DEF Usable

LEMMA GrantedUsable ==
    ASSUME VInv, NEW s \in Slots, NEW a, Granted(s, a)
    PROVE  Usable(state', resources', chains')
  <1> DEFINE of == IF chains[s].stage = "location"
                   THEN [chains[s].of EXCEPT !.container = resources.container,
                                             !.folder = resources.folder]
                   ELSE chains[s].of
             d == [chains[s] EXCEPT !.at = "list", !.who = a, !.of = of]
  <1>1. AreChains(chains) /\ IsChain(chains[s])
    BY VFacts DEF AreChains
  <1>2. chains' = [chains EXCEPT ![s] = d] /\ UNCHANGED << state, resources >>
    BY <1>1, ChainFields DEF Granted, AreChains, IsChain
  <1>3. d.stage = chains[s].stage /\ d.cur = chains[s].cur
    <2> HIDE DEF of
    <2> QED
      BY <1>1, ChainFields DEF IsChain
  <1> HIDE DEF d
  <1> QED
    BY <1>2, <1>3, MoveUsable

LEMMA NoSilentSessionUsable ==
    ASSUME VInv, NEW s \in Slots, NoSilentSession(s)
    PROVE  Usable(state', resources', chains')
  <1>1. \/ /\ UNCHANGED view
           /\ \/ chains' = [chains EXCEPT ![s].at = "prompt"]
              \/ chains' = [chains EXCEPT ![s].at = "fallback", ![s].who = None]
        \/ SettleSignedOut(s, chains)
        \/ Settle(s, Failed(state, "authorize"), resources)
    BY Zenon DEF NoSilentSession
  <1>2. CASE chains' = [chains EXCEPT ![s].at = "prompt"] /\ UNCHANGED view
    <2> DEFINE d == [chains[s] EXCEPT !.at = "prompt"]
    <2>1. chains' = [chains EXCEPT ![s] = d]
      BY <1>2
    <2>2. d.stage = chains[s].stage /\ d.cur = chains[s].cur
      BY VFacts, ChainFields DEF AreChains, IsChain
    <2> HIDE DEF d
    <2> QED
      BY <1>2, <2>1, <2>2, MoveUsable DEF view
  <1>3. CASE chains' = [chains EXCEPT ![s].at = "fallback", ![s].who = None]
             /\ UNCHANGED view
    <2> DEFINE d == [chains[s] EXCEPT !.at = "fallback", !.who = None]
    <2>1. chains' = [chains EXCEPT ![s] = d]
      BY <1>3, VFacts, ChainFields DEF AreChains, IsChain
    <2>2. d.stage = chains[s].stage /\ d.cur = chains[s].cur
      BY VFacts, ChainFields DEF AreChains, IsChain
    <2> HIDE DEF d
    <2> QED
      BY <1>3, <2>1, <2>2, MoveUsable DEF view
  <1>4. CASE SettleSignedOut(s, chains)
    BY <1>4, SignedOutUsable
  <1>5. CASE Settle(s, Failed(state, "authorize"), resources)
    BY <1>5, FailedSettleUsable
  <1> QED
    BY <1>1, <1>2, <1>3, <1>4, <1>5

LEMMA EndsUsable ==
    ASSUME VInv, NEW s \in Slots,
           Dropped(s) \/ StageFailed(s) \/ PromptRejected(s) \/ PromptGranted(s)
    PROVE  Usable(state', resources', chains')
  <1>1. CASE ~IsCurrent(s) /\ Settle(s, state, resources)
    BY <1>1, DroppedUsable
  <1>2. ASSUME NEW kind, Settle(s, Failed(state, kind), resources)
        PROVE  Usable(state', resources', chains')
    BY <1>2, FailedSettleUsable
  <1>3. ASSUME NEW a, Granted(s, a) PROVE Usable(state', resources', chains')
    BY <1>3, GrantedUsable
  <1> QED
    BY <1>1, <1>2, <1>3 DEF Dropped, StageFailed, PromptRejected, PromptGranted

LEMMA DiscoverListedUsable ==
    ASSUME VInv, NEW s \in Slots, DiscoverListed(s)
    PROVE  Usable(state', resources', chains')
  <1> DEFINE Shown(names) == [Closed EXCEPT !.open = state.open, !.mode = state.mode,
                !.public = state.public, !.phase = "ready", !.identity = chains[s].who,
                !.tenants = Listing(s, names)]
             asks == chains[s].asks
             h == [resources EXCEPT !.fresh = "fresh"]
  <1>1. ASSUME NEW names
        PROVE  /\ IsView(Shown(names)) /\ Shown(names).phase = "ready"
               /\ Shown(names).tenants.names = names /\ Shown(names).mode = state.mode
    BY DEF IsView, Closed, Listing
  <1>2. chains[s].cur /\ chains[s].stage = "discover" /\ state.mode = "authenticated"
    <2>1. state.mode # "public"
      BY OtherChainsAreApart DEF DiscoverListed, Listed, VInv, LInv
    <2> QED
      BY <2>1, VFacts DEF DiscoverListed, Listed, IsCurrent
  <1>3. \/ Settle(s, Shown({}), h)
        \/ \E tenant \in Tenants :
             SelectTenant(s, tenant, asks, TRUE, Kept(asks), Pending(asks), Shown(Tenants))
    BY Zenon DEF DiscoverListed
  <1>4. IsHeld(h) /\ h.retry = "discover"
    BY <1>2, VFacts, Places DEF IsHeld, Follows
  <1> HIDE DEF Shown, h
  <1>5. CASE Settle(s, Shown({}), h)
    BY <1>1, <1>4, <1>5, DiscoverRetriable, SettleUsable
  <1>6. ASSUME NEW tenant \in Tenants,
               SelectTenant(s, tenant, asks, TRUE, Kept(asks), Pending(asks), Shown(Tenants))
        PROVE  Usable(state', resources', chains')
    BY <1>1, <1>6, SelectTenantUsable
  <1> QED
    BY <1>3, <1>5, <1>6

LEMMA TenantListedUsable ==
    ASSUME VInv, NEW s \in Slots, TenantListed(s)
    PROVE  Usable(state', resources', chains')
  <1> DEFINE Shown(names) == [state EXCEPT !.phase = "ready", !.subs = Listing(s, names),
                                           !.sub = None]
             asks == chains[s].asks
             marks == chains[s].marks
  <1>1. ASSUME NEW names
        PROVE  /\ IsView(Shown(names)) /\ Shown(names).phase = "ready"
               /\ Shown(names).subs = Listing(s, names) /\ Shown(names).mode = state.mode
               /\ Shown(names).tenants = state.tenants /\ Shown(names).tenant = state.tenant
    BY VFacts, ViewFields DEF IsView
  <1>2. chains[s].cur /\ chains[s].stage = "tenant" /\ state.mode = "authenticated"
    <2>1. state.mode # "public"
      BY OtherChainsAreApart DEF TenantListed, Listed, VInv, LInv
    <2> QED
      BY <2>1, VFacts DEF TenantListed, Listed, IsCurrent
  <1>3. \/ Settle(s, Shown({}), resources)
        \/ \E sub \in Subscriptions :
             SelectSubscription(s, sub, asks, marks, Kept(asks), Pending(asks),
                                Shown(Subscriptions))
    BY Zenon DEF TenantListed
  <1>4. \A names : Listing(s, names).names = names
    BY DEF Listing
  <1> HIDE DEF Shown
  <1>5. CASE Settle(s, Shown({}), resources)
    <2>1. Follows(chains[s], resources) /\ Retriable(state, resources)
      BY <1>2, VFacts
    <2>2. Retriable(Shown({}), resources)
      BY <1>1, <1>2, <2>1 DEF Retriable, Follows
    <2> QED
      BY <1>1, <1>2, <1>5, <2>2, VFacts, SettleUsable
  <1>6. ASSUME NEW sub \in Subscriptions,
               SelectSubscription(s, sub, asks, marks, Kept(asks), Pending(asks),
                                  Shown(Subscriptions))
        PROVE  Usable(state', resources', chains')
    BY <1>1, <1>4, <1>6, SelectSubscriptionUsable
  <1> QED
    BY <1>3, <1>5, <1>6

LEMMA SubscriptionListedUsable ==
    ASSUME VInv, NEW s \in Slots, SubscriptionListed(s)
    PROVE  Usable(state', resources', chains')
  <1>1. PICK names \in {{}, Stores} :
           Settle(s, [state EXCEPT !.phase = "ready", !.stores = Listing(s, names)],
                  resources)
    BY DEF SubscriptionListed
  <1> DEFINE v == [state EXCEPT !.phase = "ready", !.stores = Listing(s, names)]
  <1>2. v.phase = "ready" /\ v.mode = state.mode /\ v.subs = state.subs /\ v.sub = state.sub
    BY VFacts, ViewFields DEF IsView
  <1>3. chains[s].cur /\ chains[s].stage = "subscription" /\ state.mode = "authenticated"
    <2>1. state.mode # "public"
      BY OtherChainsAreApart DEF SubscriptionListed, Listed, VInv, LInv
    <2> QED
      BY <2>1, VFacts DEF SubscriptionListed, Listed, IsCurrent
  <1>4. Settle(s, v, resources)
    BY <1>1
  <1> HIDE DEF v
  <1>5. Retriable(v, resources)
    <2>1. Follows(chains[s], resources) /\ Retriable(state, resources)
      BY <1>3, VFacts
    <2> QED
      BY <1>2, <1>3, <2>1 DEF Retriable, Follows
  <1> QED
    BY <1>2, <1>3, <1>4, <1>5, VFacts, SettleUsable

LEMMA PageListedUsable ==
    ASSUME VInv, NEW s \in Slots, PageListed(s)
    PROVE  Usable(state', resources', chains')
  <1> DEFINE chain == chains[s]
             page == [by |-> chain.who, of |-> chain.of,
                      n |-> IF chain.more = 0 THEN 1 ELSE chain.more]
             entries == IF chain.more = 0 THEN <<page>> ELSE Append(state.entries, page)
             v == [state EXCEPT !.phase = "ready", !.error = "none",
                          !.path = Path(resources.container, resources.folder),
                          !.entries = entries]
             Held(next) == [resources EXCEPT !.next = next,
                            !.registry = IF chain.more = 0 THEN {page} ELSE @ \cup {page},
                            !.fresh = IF state.mode = "public" THEN "fresh" ELSE @]
  <1>1. PICK next : Settle(s, v, Held(next))
    BY PageListedSettles
  <1> DEFINE h == Held(next)
  <1>2. IsHeld(h) /\ h.retry = resources.retry /\ h.container = resources.container
    BY VFacts, Places DEF IsHeld
  <1>3. Same(state, v) /\ v.phase = "ready"
    BY VFacts, ViewFields DEF IsView, Same
  <1>4. Settle(s, v, h)
    BY <1>1
  <1> HIDE DEF v, h, Held
  <1>5. v.mode = "authenticated" =>
           Retriable(v, h) /\ \A t \in Slots : Follows(chains[t], h)
    BY <1>2, <1>3, VFacts, SameRetriable DEF Same, Follows
  <1> QED
    BY <1>2, <1>3, <1>4, <1>5, VFacts, SettleUsable

LEMMA ProvedUsable ==
    ASSUME VInv, NEW s \in Slots, Proved(s)
    PROVE  Usable(state', resources', chains')
  <1> DEFINE d == [chains[s] EXCEPT !.at = "proved"]
  <1>1. chains' = [chains EXCEPT ![s] = d] /\ UNCHANGED << state, resources >>
    BY DEF Proved, view
  <1>2. d.stage = chains[s].stage /\ d.cur = chains[s].cur
    BY VFacts, ChainFields DEF AreChains, IsChain
  <1> HIDE DEF d
  <1> QED
    BY <1>1, <1>2, MoveUsable

LEMMA ReconciledUsable ==
    ASSUME VInv, NEW s \in Slots, Reconciled(s)
    PROVE  Usable(state', resources', chains')
  <1>1. ~Stops(chains[s])
    BY DEF Reconciled, Stops
  <1>2. \/ /\ chains' = [chains EXCEPT ![s] = IdleChain]
           /\ state' \in {state, [state EXCEPT !.identity = chains[s].who]}
           /\ UNCHANGED resources
        \/ Rediscover(s, None, FALSE)
        \/ SettleSignedOut(s, Superseded)
    BY Zenon DEF Reconciled, view
  <1>3. CASE /\ chains' = [chains EXCEPT ![s] = IdleChain]
             /\ state' \in {state, [state EXCEPT !.identity = chains[s].who]}
             /\ UNCHANGED resources
    <2>1. Same(state, state') /\ state'.phase = state.phase
      BY <1>3, VFacts, ViewFields DEF IsView, Same
    <2>2. state'.mode = "authenticated" =>
             Retriable(state', resources) /\ \A t \in Slots : Follows(chains[t], resources)
      BY <2>1, VFacts, SameRetriable DEF Same
    <2> QED
      BY <1>1, <1>3, <2>1, <2>2, VFacts, IdleStopsNothing, ReplacedUsable
  <1>4. CASE Rediscover(s, None, FALSE)
    BY <1>4, RediscoverUsable
  <1>5. CASE SettleSignedOut(s, Superseded)
    BY <1>5, SignedOutUsable
  <1> QED
    BY <1>2, <1>3, <1>4, <1>5

LEMMA ProviderEventUsable ==
    ASSUME VInv, NEW s \in Slots, ProviderEvent(s)
    PROVE  Usable(state', resources', chains')
  <1>1. CASE UNCHANGED << view, chains >>
    BY <1>1, UnchangedUsable DEF view
  <1>2. CASE state.mode = "authenticated" /\ Reconcile(s, state, resources, FALSE)
    <2>1. ~Stops(chains[s])
      BY IdleStopsNothing DEF ProviderEvent, Free
    <2> QED
      BY <1>2, <2>1, VFacts, ReconcileUsable
  <1>3. CASE state' = Closed /\ resources' = NoResources
    <2>1. Closed.phase # "loading"
      BY DEF Closed
    <2> QED
      BY <1>3, <2>1, ForgottenUsable
  <1> QED
    BY <1>1, <1>2, <1>3 DEF ProviderEvent

LEMMA NextUsable ==
    ASSUME VInv, [Next]_vars
    PROVE  Usable(state', resources', chains')
  <1> DEFINE Goal == Usable(state', resources', chains')
  <1>1. ASSUME NEW s \in Slots, UserStep(s) PROVE Goal
    BY <1>1, UserStepUsable
  <1>2. ASSUME NEW s \in Slots, Answer(s) PROVE Goal
    <2>1. CASE SilentSession(s)
      BY <2>1, GrantedUsable DEF SilentSession
    <2>2. CASE NoSilentSession(s)
      BY <2>2, NoSilentSessionUsable
    <2>3. CASE Dropped(s) \/ StageFailed(s)
      BY <2>3, EndsUsable
    <2>4. CASE DiscoverListed(s) \/ TenantListed(s) \/ SubscriptionListed(s)
      BY <2>4, DiscoverListedUsable, TenantListedUsable, SubscriptionListedUsable
    <2>5. CASE PageListed(s)
      BY <2>5, PageListedUsable
    <2>6. CASE Proved(s) \/ Reconciled(s)
      BY <2>6, ProvedUsable, ReconciledUsable
    <2> QED
      BY <1>2, <2>1, <2>2, <2>3, <2>4, <2>5, <2>6 DEF Answer
  <1>3. ASSUME NEW s \in Slots, Prompt(s) PROVE Goal
    BY <1>3, EndsUsable DEF Prompt
  <1>4. ASSUME NEW s \in Slots, ProviderEvent(s) PROVE Goal
    BY <1>4, ProviderEventUsable
  <1>5. CASE Instant
    BY <1>5, InstantUsable
  <1>6. CASE UNCHANGED << state, resources, chains >>
    BY <1>6, UnchangedUsable
  <1>7. ASSUME NEW a \in Accounts, SessionsChange(a) PROVE Goal
    BY <1>6, <1>7 DEF SessionsChange, view
  <1> QED
    BY <1>1, <1>2, <1>3, <1>4, <1>5, <1>6, <1>7 DEF Next, vars, view

LEMMA UsableIsUsable ==
    ASSUME VInv PROVE ViewIsUsable
  <1>1. state.phase = "loading" => \E s \in Slots : IsCurrent(s)
    BY VFacts DEF Stops, IsCurrent
  <1>2. state.mode = "authenticated" => Retriable(state, resources)
    BY VFacts
  <1>3. state.mode = "authenticated" =>
           /\ resources.retry = "account" => Target # Nowhere
           /\ resources.retry = "location" => Complete(resources.container)
    BY <1>2, TargetIsOnDisplay DEF Retriable, Complete
  <1>4. resources.retry \in {"discover", "tenant", "subscription", "account", "location"}
    BY VFacts DEF Stages
  <1> QED
    BY <1>1, <1>2, <1>3, <1>4 DEF ViewIsUsable, Retriable

(* The view is never stuck, with as many requests, reconciliations and      *)
(* changes of the sessions as there may be: the spinner turns only while a  *)
(* current request will stop it, and the place a retry goes back to is on   *)
(* display (loading, fail, retry).                                          *)
THEOREM ViewsAreUsable == Spec => []ViewIsUsable
  <1>1. Init => Usable(state, resources, chains)
    BY RetryOfNothing, DiscoverRetriable DEF Init, Usable, Closed
  <1>2. VInv /\ [Next]_vars => Usable(state', resources', chains')
    BY NextUsable
  <1>3. LInv /\ Usable(state, resources, chains) <=> VInv
    BY DEF VInv
  <1>4. Usable(state, resources, chains)' <=> Usable(state', resources', chains')
    BY DEF Usable
  <1>5. VInv => ViewIsUsable
    BY UsableIsUsable
  <1> QED
    BY <1>1, <1>2, <1>3, <1>4, <1>5, ListingsCohere, PTL DEF Spec

-----------------------------------------------------------------------------
(* The lists and the entries belong together: while the user acts on what  *)
(* the page offers.                                                        *)

\* Looking for a session needs nothing of the view.
LEMMA DiscoverBrings ==
    ASSUME NEW c, c.stage = "discover", c.at # "list", NEW v, NEW r
    PROVE  Brings(c, v, r)
  BY DEF Brings, PageStages

\* Beside a current chain that will write there are only such chains.
LEMMA OthersAside ==
    ASSUME NInv, NEW s \in Slots, Stops(chains[s])
    PROVE  /\ state.open /\ state.phase = "loading"
           /\ \A t \in Slots \ {s} : ~Stops(chains[t])
           /\ \A t \in Slots \ {s} : \A v, r : Brings(chains[t], v, r)
  <1>1. \A t \in Slots \ {s} : ~Stops(chains[t])
    BY DEF NInv, Nests, OneRequest
  <1>2. \A t \in Slots : Brings(chains[t], state, resources)
    BY DEF NInv, Nests
  <1>3. ASSUME NEW t \in Slots \ {s}, NEW v, NEW r PROVE Brings(chains[t], v, r)
    BY <1>1, <1>2 DEF Stops, Brings, PageStages
  <1> QED
    BY <1>1, <1>3 DEF NInv, Nests, OneRequest

\* The same, of a slot that is free or of a chain that was overtaken, when nothing
\* else will write.
LEMMA NoneStops ==
    ASSUME NInv, ~state.open \/ state.phase # "loading"
    PROVE  /\ \A t \in Slots : ~Stops(chains[t])
           /\ \A t \in Slots : \A v, r : Brings(chains[t], v, r)
  <1>1. \A t \in Slots : ~Stops(chains[t])
    BY DEF NInv, Nests, OneRequest
  <1>2. \A t \in Slots : Brings(chains[t], state, resources)
    BY DEF NInv, Nests
  <1>3. ASSUME NEW t \in Slots, NEW v, NEW r PROVE Brings(chains[t], v, r)
    BY <1>1, <1>2 DEF Stops, Brings, PageStages
  <1> QED
    BY <1>1, <1>3

LEMMA OvertakenAside ==
    ASSUME NInv, LInv
    PROVE  \A t \in Slots : \A v, r :
              /\ ~Stops(Superseded[t]) /\ Brings(Superseded[t], v, r)
              /\ ~Stops(Ended[t]) /\ Brings(Ended[t], v, r)
              /\ ~Stops(IdleChain) /\ Brings(IdleChain, v, r)
  <1> TAKE t \in Slots
  <1> TAKE v, r
  <1>1. Superseded[t].cur = FALSE /\ Ended[t].cur = FALSE /\ IdleChain.cur = FALSE
    BY SupersededAbove, Places
  <1> QED
    BY <1>1 DEF Stops, Brings

\* A view of nothing.
EmptyView(v) ==
    /\ v.mode \in {"authenticated", "public"}
    /\ v.tenants = NoList /\ v.subs = NoList /\ v.stores = NoList
    /\ v.tenant = None /\ v.sub = None /\ v.store = None /\ v.entries = <<>>

LEMMA EmptyViews ==
    /\ EmptyView(Closed) /\ EmptyView(SignedOut)
    /\ Closed.mode = "authenticated" /\ SignedOut.mode = "authenticated"
    /\ NoResources.next = 0 /\ NoResources.container = None /\ NoResources.folder = None
  BY DEF EmptyView, Closed, SignedOut, NoResources

LEMMA EmptyNests ==
    ASSUME NEW v, EmptyView(v) PROVE Nest(v)
  BY Places DEF EmptyView, Nest, OrNone

LEMMA EmptyShows ==
    ASSUME NEW v, NEW r, v.entries = <<>>, r.next = 0 \/ TargetOf(v) = Nowhere,
           r.container = None => r.folder = None
    PROVE  Shows(v, r)
  <1>1. <<>> \in Seq({}) /\ DOMAIN <<>> = {}
    OBVIOUS
  <1> QED
    BY <1>1 DEF Shows

LEMMA NoTarget ==
    ASSUME NEW v, v.mode = "authenticated", v.stores.names = {} \/ v.stores = NoList
    PROVE  TargetOf(v) = Nowhere
  BY Places DEF TargetOf

\* The place a location is listed from is the place on display.
LEMMA TargetIsHere ==
    ASSUME NEW v, Nest(v), TargetOf(v) # Nowhere, NEW r
    PROVE  /\ [TargetOf(v) EXCEPT !.container = r.container, !.folder = r.folder] =
                 PlaceOf(v, r)
           /\ r.container = None /\ r.folder = None => TargetOf(v) = PlaceOf(v, r)
  <1>1. CASE v.mode = "public"
    <2>1. TargetOf(v) = [Nowhere EXCEPT !.store = v.public]
      BY <1>1 DEF TargetOf
    <2> QED
      BY <1>1, <2>1 DEF PlaceOf, PublicPlace, Nowhere
  <1>2. CASE v.mode # "public"
    <2>1. TargetOf(v) = [v.stores.of EXCEPT !.store = v.store] /\ v.stores.names # {}
      BY <1>2 DEF TargetOf
    <2>2. TargetOf(v) = [tenant |-> v.tenant, sub |-> v.sub, store |-> v.store,
                         container |-> None, folder |-> None]
      BY <2>1 DEF Nest, Nowhere
    <2>3. PlaceOf(v, r) = [tenant |-> v.tenant, sub |-> v.sub, store |-> v.store,
                           container |-> r.container, folder |-> r.folder]
      BY <1>2 DEF PlaceOf
    <2>4. [TargetOf(v) EXCEPT !.container = r.container] =
             [tenant |-> v.tenant, sub |-> v.sub, store |-> v.store,
              container |-> r.container, folder |-> None]
      BY <2>2
    <2>5. [[tenant |-> v.tenant, sub |-> v.sub, store |-> v.store,
            container |-> r.container, folder |-> None] EXCEPT !.folder = r.folder] =
             PlaceOf(v, r)
      BY <2>3
    <2> QED
      BY <2>2, <2>3, <2>4, <2>5
  <1> QED
    BY <1>1, <1>2

\* Views with the same lists and entries.
LikeView(v, w) ==
    /\ w.mode = v.mode /\ w.public = v.public /\ w.identity = v.identity
    /\ w.tenants = v.tenants /\ w.tenant = v.tenant /\ w.subs = v.subs /\ w.sub = v.sub
    /\ w.stores = v.stores /\ w.store = v.store /\ w.path = v.path
    /\ w.entries = v.entries

LikeHeld(r, q) == q.container = r.container /\ q.folder = r.folder /\ q.next = r.next

LEMMA LikeNests ==
    ASSUME NEW v, NEW w, NEW r, NEW q, LikeView(v, w), LikeHeld(r, q)
    PROVE  /\ Nest(v) => Nest(w)
           /\ Shows(v, r) => Shows(w, q)
           /\ \A c : Brings(c, v, r) => Brings(c, w, q)
           /\ TargetOf(w) = TargetOf(v) /\ PlaceOf(w, q) = PlaceOf(v, r)
  <1>1. TargetOf(w) = TargetOf(v) /\ PlaceOf(w, q) = PlaceOf(v, r)
    BY DEF LikeView, LikeHeld, TargetOf, PlaceOf, PublicPlace
  <1>2. Nest(v) => Nest(w)
    BY DEF LikeView, Nest
  <1>3. Shows(v, r) => Shows(w, q)
    BY <1>1 DEF LikeView, LikeHeld, Shows
  <1>4. \A c : Brings(c, v, r) => Brings(c, w, q)
    BY <1>1 DEF LikeView, Brings
  <1> QED
    BY <1>1, <1>2, <1>3, <1>4

-----------------------------------------------------------------------------
(* The ways a step leaves the lists, the entries and the chains.           *)

NGoal == Nests(state', resources', chains')

\* The chains beside s suit the view.
Beside(s, v, r) ==
    \A t \in Slots \ {s} :
        /\ Brings(chains[t], v, r)
        /\ Stops(chains[t]) => v.open /\ v.phase = "loading"

LEMMA BesideFacts ==
    ASSUME NInv, NEW s \in Slots, NEW v, NEW r
    PROVE  /\ Beside(s, state, resources)
           /\ Stops(chains[s]) => Beside(s, v, r)
           /\ ~state.open \/ state.phase # "loading" => Beside(s, v, r)
  <1>1. Beside(s, state, resources)
    BY DEF NInv, Nests, OneRequest, Beside
  <1>2. ASSUME Stops(chains[s]) PROVE Beside(s, v, r)
    BY <1>2, OthersAside DEF Beside
  <1>3. ASSUME ~state.open \/ state.phase # "loading" PROVE Beside(s, v, r)
    BY <1>3, NoneStops DEF Beside
  <1> QED
    BY <1>1, <1>2, <1>3

\* Every chain is overtaken.
LEMMA OvertakenNests ==
    ASSUME LInv, NInv, chains' \in {Ended, Superseded}, Nest(state'), Shows(state', resources')
    PROVE  NGoal
  <1>1. \A t \in Slots : ~Stops(chains'[t]) /\ Brings(chains'[t], state', resources')
    BY OvertakenAside
  <1> QED
    BY <1>1 DEF NGoal, Nests, OneRequest

\* One chain is new, the others suit the view.
LEMMA OneNests ==
    ASSUME LInv, NInv, NEW s \in Slots, NEW d,
           chains' = [chains EXCEPT ![s] = d], Beside(s, state', resources'),
           Stops(d) => (\A t \in Slots \ {s} : ~Stops(chains[t]))
                       /\ state'.open /\ state'.phase = "loading",
           Brings(d, state', resources'), Nest(state'), Shows(state', resources')
    PROVE  NGoal
  <1>1. AreChains(chains)
    BY SameViews
  <1>2. chains'[s] = d /\ \A t \in Slots \ {s} : chains'[t] = chains[t]
    BY <1>1 DEF AreChains
  <1>3. \A t \in Slots : Brings(chains'[t], state', resources')
    BY <1>2 DEF Beside
  <1>4. \A t \in Slots : Stops(chains'[t]) => state'.open /\ state'.phase = "loading"
    BY <1>2 DEF Beside
  <1>5. ASSUME NEW t \in Slots, NEW u \in Slots, Stops(chains'[t]), Stops(chains'[u])
        PROVE  t = u
    BY <1>2, <1>5 DEF NInv, Nests, OneRequest
  <1> QED
    BY <1>3, <1>4, <1>5 DEF NGoal, Nests, OneRequest

\* One chain is new, the others are overtaken.
LEMMA NewNests ==
    ASSUME LInv, NInv, NEW s \in Slots, NEW d, NEW cs \in {Ended, Superseded},
           chains' = [cs EXCEPT ![s] = d],
           Stops(d) => state'.open /\ state'.phase = "loading",
           Brings(d, state', resources'), Nest(state'), Shows(state', resources')
    PROVE  NGoal
  <1>1. AreChains(cs)
    BY SameViews, SupersededChains, EndedChains
  <1>2. chains'[s] = d /\ \A t \in Slots \ {s} : chains'[t] = cs[t]
    BY <1>1 DEF AreChains
  <1>3. \A t \in Slots : ~Stops(cs[t]) /\ Brings(cs[t], state', resources')
    BY OvertakenAside
  <1>4. \A t \in Slots : Brings(chains'[t], state', resources')
    BY <1>2, <1>3
  <1>5. \A t \in Slots : Stops(chains'[t]) => t = s /\ state'.open /\ state'.phase = "loading"
    BY <1>2, <1>3
  <1> QED
    BY <1>4, <1>5 DEF NGoal, Nests, OneRequest

LEMMA UnchangedNests ==
    ASSUME NInv, UNCHANGED << state, resources, chains >>
    PROVE  NGoal
  BY DEF NInv, NGoal

LEMMA RediscoverNests ==
    ASSUME LInv, NInv, NEW s \in Slots, NEW pinned, NEW marks, Rediscover(s, pinned, marks)
    PROVE  NGoal
  <1> DEFINE c == [IdleChain EXCEPT !.stage = "discover", !.at = "session", !.cur = TRUE,
                            !.marks = marks, !.who = pinned]
             v == [Closed EXCEPT !.open = TRUE, !.phase = "loading"]
  <1>1. c.stage = "discover" /\ c.at # "list"
    BY DEF IdleChain
  <1>2. chains' = [Superseded EXCEPT ![s] = c] /\ resources' = NoResources /\ state' = v
    BY DEF Rediscover
  <1>3. EmptyView(v) /\ v.open /\ v.phase = "loading"
    BY DEF EmptyView, Closed
  <1> HIDE DEF c, v
  <1>4. Nest(v) /\ Shows(v, NoResources)
    BY <1>3, EmptyNests, EmptyShows, EmptyViews DEF EmptyView
  <1>5. Brings(c, v, NoResources)
    BY <1>1, DiscoverBrings
  <1> QED
    BY <1>2, <1>3, <1>4, <1>5, NewNests

LEMMA LoadNests ==
    ASSUME LInv, NInv, NEW s \in Slots, NEW c, NEW kept, NEW pending, NEW shown, NEW held,
           IsView(shown), Nest(Loading(shown)), Shows(Loading(shown), held),
           Brings([c EXCEPT !.cur = TRUE], Loading(shown), held),
           Load(s, c, kept, pending, shown, held)
    PROVE  NGoal
  <1>1. CASE pending /\ kept = NoOp /\ shown.mode = "authenticated"
    <2>1. Rediscover(s, account, c.marks)
      BY <1>1 DEF Load
    <2> QED
      BY <2>1, RediscoverNests
  <1>2. CASE ~(pending /\ kept = NoOp /\ shown.mode = "authenticated")
    <2> DEFINE d == [c EXCEPT !.cur = TRUE]
               v == Loading(shown)
    <2>1. state' = v /\ resources' = held /\ chains' = [Superseded EXCEPT ![s] = d]
      BY <1>2 DEF Load, Loading
    <2>2. v.open /\ v.phase = "loading"
      BY ViewFields DEF IsView, Loading
    <2>3. Brings(d, v, held) /\ Nest(v) /\ Shows(v, held)
      OBVIOUS
    <2> HIDE DEF d, v
    <2> QED
      BY <2>1, <2>2, <2>3, NewNests
  <1> QED
    BY <1>1, <1>2

LEMMA ReconcileNests ==
    ASSUME LInv, NInv, NEW s \in Slots, NEW shown, NEW held, NEW pending,
           Beside(s, shown, held), Nest(shown), Shows(shown, held),
           Reconcile(s, shown, held, pending)
    PROVE  NGoal
  <1>1. CASE account = None
    BY <1>1, RediscoverNests DEF Reconcile
  <1>2. CASE account # None
    <2> DEFINE d == [IdleChain EXCEPT !.stage = "reconcile", !.at = "session",
                        !.cur = TRUE, !.live = TRUE, !.who = account]
    <2>1. d.stage = "reconcile" /\ d.who # None /\ d.at # "prompt"
      BY <1>2 DEF IdleChain
    <2>2. chains' = [chains EXCEPT ![s] = d] /\ state' = shown /\ resources' = held
      BY <1>2 DEF Reconcile
    <2> HIDE DEF d
    <2>3. ~Stops(d) /\ Brings(d, shown, held)
      BY <2>1 DEF Stops, Brings, PageStages
    <2> QED
      BY <2>2, <2>3, OneNests
  <1> QED
    BY <1>1, <1>2

LEMMA SettleNests ==
    ASSUME LInv, NInv, NEW s \in Slots, NEW shown, NEW held, IsHeld(held),
           Beside(s, shown, held), Nest(shown), Shows(shown, held), Settle(s, shown, held)
    PROVE  NGoal
  <1> DEFINE marked == IF chains[s].marks /\ shown.phase = "ready"
                       THEN [held EXCEPT !.fresh = "fresh"] ELSE held
  <1>1. LikeHeld(held, marked)
    BY Places DEF IsHeld, LikeHeld
  <1>2. /\ op.slot = s /\ op.changed => Reconcile(s, shown, marked, deferred)
        /\ ~(op.slot = s /\ op.changed) =>
              /\ state' = shown /\ resources' = marked
              /\ chains' = [chains EXCEPT ![s] = IdleChain]
    BY Zenon DEF Settle
  <1> HIDE DEF marked
  <1>3. LikeView(shown, shown)
    BY DEF LikeView
  <1>4. Shows(shown, marked) /\ Beside(s, shown, marked)
    BY <1>1, <1>3, LikeNests DEF Beside
  <1>5. ~Stops(IdleChain) /\ Brings(IdleChain, shown, marked)
    BY Places DEF Stops, Brings
  <1> QED
    BY <1>2, <1>4, <1>5, ReconcileNests, OneNests

\* The view keeps its lists and entries.
LEMMA LikeSettles ==
    ASSUME LInv, NInv, NEW s \in Slots, NEW shown, LikeView(state, shown),
           \/ Stops(chains[s])
           \/ shown.open = state.open /\ shown.phase = state.phase,
           Settle(s, shown, resources)
    PROVE  NGoal
  <1>1. Nest(state) /\ Shows(state, resources) /\ IsHeld(resources)
    BY DEF NInv, Nests, LInv
  <1>2. LikeHeld(resources, resources)
    BY DEF LikeHeld
  <1>3. Nest(shown) /\ Shows(shown, resources)
    BY <1>1, <1>2, LikeNests
  <1>4. Beside(s, shown, resources)
    <2>1. CASE Stops(chains[s])
      BY <2>1, BesideFacts
    <2>2. CASE shown.open = state.open /\ shown.phase = state.phase
      BY <1>2, <2>2, BesideFacts, LikeNests DEF Beside
    <2> QED
      BY <2>1, <2>2
  <1> QED
    BY <1>1, <1>3, <1>4, SettleNests

LEMMA LikeViews ==
    ASSUME LInv
    PROVE  /\ LikeView(state, state)
           /\ \A kind : LikeView(state, Failed(state, kind))
           /\ LikeView(state, Loading(state))
  <1>1. IsView(state)
    BY SameViews
  <1> QED
    BY <1>1, ViewFields DEF IsView, LikeView, Failed, Loading

LEMMA SignedOutNests ==
    ASSUME LInv, NInv, NEW s \in Slots, NEW cs \in {chains, Superseded},
           cs = Superseded \/ Stops(chains[s]), SettleSignedOut(s, cs)
    PROVE  NGoal
  <1>1. chains' = [cs EXCEPT ![s] = IdleChain] /\ state' = SignedOut
        /\ resources' = NoResources
    BY DEF SettleSignedOut
  <1>2. Nest(SignedOut) /\ Shows(SignedOut, NoResources)
    BY EmptyNests, EmptyShows, EmptyViews DEF EmptyView
  <1>3. ~Stops(IdleChain) /\ Brings(IdleChain, state', resources')
    BY Places DEF Stops, Brings
  <1>4. CASE cs = chains /\ Stops(chains[s])
    <2>1. Beside(s, state', resources')
      BY <1>4, BesideFacts
    <2> QED
      BY <1>1, <1>2, <1>3, <1>4, <2>1, OneNests
  <1>5. CASE cs = Superseded
    BY <1>1, <1>2, <1>3, <1>5, NewNests
  <1> QED
    BY <1>4, <1>5

-----------------------------------------------------------------------------
(* The stages keep the lists and the entries together.                     *)

LEMMA DiscoverNests ==
    ASSUME LInv, NInv, NEW s \in Slots, NEW asks, NEW pinned, NEW kept, NEW pending,
           NEW shown, NEW held, IsView(shown), IsHeld(held), Nest(shown), Shows(shown, held),
           Discover(s, asks, pinned, kept, pending, shown, held)
    PROVE  NGoal
  <1> DEFINE c == Ask("discover", asks, FALSE, pinned, Nowhere)
             d == [c EXCEPT !.cur = TRUE]
             h == [held EXCEPT !.retry = "discover"]
             v == Loading(shown)
  <1>1. Load(s, c, kept, pending, shown, h)
    BY DEF Discover
  <1>2. IsChain(c) /\ c.stage = "discover" /\ c.at = "session"
    BY ChainFields DEF Ask, IsChain, IdleChain
  <1>3. d.stage = "discover" /\ d.at # "list"
    BY <1>2, ChainFields DEF IsChain
  <1>4. LikeHeld(held, h)
    BY Places DEF IsHeld, LikeHeld
  <1>5. LikeView(shown, v)
    BY ViewFields DEF IsView, LikeView, Loading
  <1> HIDE DEF c, d, h, v
  <1>6. Nest(v) /\ Shows(v, h)
    BY <1>4, <1>5, LikeNests
  <1>7. Brings(d, v, h)
    BY <1>3, DiscoverBrings
  <1> QED
    BY <1>1, <1>6, <1>7, LoadNests DEF d, v

\* Somebody's session listed what a choice is made from.
LEMMA ListedForSomebody ==
    ASSUME NEW v, Nest(v),
           v.tenants.names # {} \/ v.subs.names # {} \/ v.stores.names # {}
    PROVE  v.identity # None
  BY Places DEF Nest

LEMMA SelectTenantNests ==
    ASSUME LInv, NInv, NEW s \in Slots, NEW tenant, NEW asks, NEW marks, NEW kept,
           NEW pending, NEW shown, IsView(shown), shown.mode = "authenticated",
           Nest(shown), tenant \in shown.tenants.names,
           SelectTenant(s, tenant, asks, marks, kept, pending, shown)
    PROVE  NGoal
  <1> DEFINE u == [shown EXCEPT !.tenant = tenant, !.subs = NoList, !.sub = None,
                       !.stores = NoList, !.store = None, !.path = <<>>, !.entries = <<>>]
             of == [Nowhere EXCEPT !.tenant = tenant]
             c == Ask("tenant", asks, marks, account, of)
             d == [c EXCEPT !.cur = TRUE]
             h == [resources EXCEPT !.retry = "tenant"]
             v == Loading(u)
  <1>1. Load(s, c, kept, pending, u, h)
    BY DEF SelectTenant
  <1>2. IsView(u)
    BY DEF IsView
  <1>3. IsChain(c) /\ c.stage = "tenant" /\ c.of = of
    <2> HIDE DEF of
    <2> QED
      BY ChainFields DEF Ask, IsChain, IdleChain
  <1>4. d.stage = "tenant" /\ d.of = of
    BY <1>3, ChainFields DEF IsChain
  <1>5. LikeHeld(resources, h)
    BY Places DEF LInv, IsHeld, LikeHeld
  <1>6. /\ v.mode = "authenticated" /\ v.identity = shown.identity
        /\ v.tenants = shown.tenants /\ v.tenant = tenant
        /\ v.subs = NoList /\ v.sub = None /\ v.stores = NoList /\ v.store = None
        /\ v.entries = <<>>
    BY ViewFields DEF IsView, Loading
  <1>7. shown.identity # None
    BY ListedForSomebody
  <1> HIDE DEF c, d, h, u, v
  <1>8. Nest(v)
    BY <1>6, <1>7, Places DEF Nest, OrNone
  <1>9. TargetOf(v) = Nowhere
    BY <1>6, NoTarget
  <1>10. resources.container = None => resources.folder = None
    BY DEF NInv, Nests, Shows
  <1>11. Shows(v, h)
    BY <1>5, <1>6, <1>9, <1>10, EmptyShows DEF LikeHeld
  <1>12. Brings(d, v, h)
    BY <1>4, <1>6, <1>7, Places DEF Brings, PageStages
  <1> QED
    BY <1>1, <1>2, <1>8, <1>11, <1>12, LoadNests DEF d, v

LEMMA SelectSubscriptionNests ==
    ASSUME LInv, NInv, NEW s \in Slots, NEW sub, NEW asks, NEW marks, NEW kept,
           NEW pending, NEW shown, IsView(shown), shown.mode = "authenticated",
           Nest(shown), sub \in shown.subs.names,
           SelectSubscription(s, sub, asks, marks, kept, pending, shown)
    PROVE  NGoal
  <1> DEFINE u == [shown EXCEPT !.sub = sub, !.stores = NoList, !.store = None,
                       !.path = <<>>, !.entries = <<>>]
             of == [shown.subs.of EXCEPT !.sub = sub]
             c == Ask("subscription", asks, marks, account, of)
             d == [c EXCEPT !.cur = TRUE]
             h == [resources EXCEPT !.retry = "subscription"]
             v == Loading(u)
  <1>1. Load(s, c, kept, pending, u, h)
    BY DEF SelectSubscription
  <1>2. IsView(u)
    BY DEF IsView
  <1>3. IsChain(c) /\ c.stage = "subscription" /\ c.of = of
    <2> HIDE DEF of
    <2> QED
      BY ChainFields DEF Ask, IsChain, IdleChain
  <1>4. d.stage = "subscription" /\ d.of = of
    BY <1>3, ChainFields DEF IsChain
  <1>5. LikeHeld(resources, h)
    BY Places DEF LInv, IsHeld, LikeHeld
  <1>6. /\ v.mode = "authenticated" /\ v.identity = shown.identity
        /\ v.tenants = shown.tenants /\ v.tenant = shown.tenant
        /\ v.subs = shown.subs /\ v.sub = sub /\ v.stores = NoList /\ v.store = None
        /\ v.entries = <<>>
    BY ViewFields DEF IsView, Loading
  <1>7. shown.identity # None
    BY ListedForSomebody
  <1>8. of = [Nowhere EXCEPT !.tenant = shown.tenant, !.sub = sub]
    BY DEF Nest
  <1> HIDE DEF of, c, d, h, u, v
  <1>9. Nest(v)
    BY <1>6, <1>7, Places DEF Nest, OrNone
  <1>10. TargetOf(v) = Nowhere
    BY <1>6, NoTarget
  <1>11. resources.container = None => resources.folder = None
    BY DEF NInv, Nests, Shows
  <1>12. Shows(v, h)
    BY <1>5, <1>6, <1>10, <1>11, EmptyShows DEF LikeHeld
  <1>13. Brings(d, v, h)
    BY <1>4, <1>6, <1>7, <1>8 DEF Brings, PageStages
  <1> QED
    BY <1>1, <1>2, <1>9, <1>12, <1>13, LoadNests DEF d, v

LEMMA SelectAccountNests ==
    ASSUME LInv, NInv, NEW s \in Slots, NEW store, NEW asks, NEW kept, NEW pending,
           state.mode = "authenticated", store \in state.stores.names,
           SelectAccount(s, store, asks, kept, pending)
    PROVE  NGoal
  <1> DEFINE u == [state EXCEPT !.store = store, !.path = <<>>, !.entries = <<>>,
                       !.picked = None]
             of == [state.stores.of EXCEPT !.store = store]
             c == Ask("account", asks, FALSE, account, of)
             d == [c EXCEPT !.cur = TRUE]
             h == [resources EXCEPT !.retry = "account", !.registry = {}, !.next = 0,
                       !.container = None, !.folder = None]
             v == Loading(u)
  <1>1. Load(s, c, kept, pending, u, h)
    BY DEF SelectAccount
  <1>2. IsView(u)
    BY SameViews DEF IsView
  <1>3. IsChain(c) /\ c.stage = "account" /\ c.of = of /\ c.more = 0
    <2> HIDE DEF of
    <2> QED
      BY ChainFields DEF Ask, IsChain, IdleChain
  <1>4. d.stage = "account" /\ d.of = of /\ d.more = 0
    BY <1>3, ChainFields DEF IsChain
  <1>5. h.next = 0 /\ h.container = None /\ h.folder = None
    BY Places DEF LInv, IsHeld
  <1>6. /\ v.mode = "authenticated" /\ v.identity = state.identity
        /\ v.tenants = state.tenants /\ v.tenant = state.tenant
        /\ v.subs = state.subs /\ v.sub = state.sub
        /\ v.stores = state.stores /\ v.store = store /\ v.entries = <<>>
    BY SameViews, ViewFields DEF IsView, Loading
  <1>7. Nest(state)
    BY DEF NInv, Nests
  <1> HIDE DEF c, d, h, u, v
  <1>8. Nest(v)
    BY <1>6, <1>7 DEF Nest, OrNone
  <1>9. TargetOf(v) = of
    BY <1>6 DEF TargetOf
  <1>10. of # Nowhere
    <2>1. None \notin state.stores.names
      BY DEF LInv, Coherent, Placed
    <2>2. of.store = store
      BY <1>7 DEF Nest, Nowhere
    <2> HIDE DEF of
    <2> QED
      BY <2>1, <2>2 DEF Nowhere
  <1> HIDE DEF of
  <1>11. Shows(v, h)
    BY <1>5, <1>6, EmptyShows
  <1>12. of = PlaceOf(v, h)
    BY <1>5, <1>8, <1>9, <1>10, TargetIsHere
  <1>13. Brings(d, v, h)
    BY <1>4, <1>9, <1>10, <1>12 DEF Brings, PageStages
  <1> QED
    BY <1>1, <1>2, <1>8, <1>11, <1>13, LoadNests DEF d, v

LEMMA LoadLocationNests ==
    ASSUME LInv, NInv, NEW s \in Slots, NEW container, NEW folder, NEW more, NEW asks,
           NEW kept, NEW pending, Complete(container),
           more # 0 => /\ container = resources.container /\ folder = resources.folder
                       /\ more = resources.next,
           LoadLocation(s, container, folder, more, asks, kept, pending)
    PROVE  NGoal
  <1> DEFINE public == state.mode = "public"
             shown == [state EXCEPT !.path = Path(container, folder)]
             held == [resources EXCEPT !.retry = "location", !.container = container,
                                       !.folder = folder]
             who == IF public THEN Anonymous ELSE account
             of == [Target EXCEPT !.container = container, !.folder = folder]
             a == Ask("location", asks, FALSE, who, of)
             c == [a EXCEPT !.at = IF public THEN "list" ELSE "session", !.more = more]
             d == [c EXCEPT !.cur = TRUE]
             u == IF more # 0 THEN shown ELSE [shown EXCEPT !.entries = <<>>, !.picked = None]
             h == IF more # 0 THEN held
                  ELSE [held EXCEPT !.registry = {}, !.next = 0,
                                    !.fresh = IF public THEN "never" ELSE @]
             v == Loading(u)
  <1>1. Load(s, c, kept, pending, u, h)
    BY DEF LoadLocation
  <1>2. IsView(u)
    BY SameViews DEF IsView
  <1>3. /\ v.mode = state.mode /\ v.public = state.public /\ v.identity = state.identity
        /\ v.tenants = state.tenants /\ v.tenant = state.tenant
        /\ v.subs = state.subs /\ v.sub = state.sub
        /\ v.stores = state.stores /\ v.store = state.store
        /\ v.path = Path(container, folder)
        /\ more = 0 => v.entries = <<>>
        /\ more # 0 => v.entries = state.entries
    BY SameViews, ViewFields DEF IsView, Loading
  <1>4. /\ h.container = container /\ h.folder = folder
        /\ more = 0 => h.next = 0
        /\ more # 0 => h.next = resources.next
    BY Places DEF LInv, IsHeld
  <1>5. IsChain(a) /\ a.stage = "location" /\ a.of = of
    <2> HIDE DEF of, who
    <2> QED
      BY ChainFields DEF Ask, IsChain, IdleChain
  <1> HIDE DEF a
  <1>6. IsChain(c) /\ c.stage = "location" /\ c.of = of /\ c.more = more
    BY <1>5, ChainFields DEF IsChain
  <1>7. d.stage = "location" /\ d.of = of /\ d.more = more
    BY <1>6, ChainFields DEF IsChain
  <1>8. Target = TargetOf(state) /\ Target # Nowhere /\ container # None
    BY TargetIsOnDisplay DEF Complete
  <1>9. Nest(state) /\ Shows(state, resources)
    BY DEF NInv, Nests
  <1> HIDE DEF c, d, h, u, v, shown, held, who, public
  <1>10. TargetOf(v) = Target
    BY <1>3, <1>8 DEF TargetOf
  <1>11. Nest(v)
    BY <1>3, <1>9 DEF Nest
  <1>12. of = PlaceOf(v, h)
    <2>1. [TargetOf(v) EXCEPT !.container = h.container, !.folder = h.folder] = PlaceOf(v, h)
      BY <1>8, <1>10, <1>11, TargetIsHere, Zenon
    <2>2. of = [TargetOf(v) EXCEPT !.container = h.container, !.folder = h.folder]
      BY <1>4, <1>10, Zenon
    <2> QED
      BY <2>1, <2>2, Zenon
  <1> HIDE DEF of
  <1>13. Shows(v, h) /\ (more # 0 => v.entries # <<>> /\ more = Len(v.entries) + 1)
    <2>1. CASE more = 0
      BY <1>3, <1>4, <1>8, <2>1, EmptyShows
    <2>2. CASE more # 0
      <3>1. PlaceOf(v, h) = PlaceOf(state, resources)
        BY <1>3, <1>4, <2>2 DEF PlaceOf, PublicPlace
      <3>2. state.entries # <<>> /\ resources.next = Len(state.entries) + 1
        BY <1>8, <1>9, <2>2 DEF Shows
      <3> QED
        BY <1>3, <1>4, <1>8, <1>9, <1>10, <2>2, <3>1, <3>2 DEF Shows
    <2> QED
      BY <2>1, <2>2
  <1>14. Brings(d, v, h)
    BY <1>7, <1>8, <1>10, <1>12, <1>13 DEF Brings, PageStages
  <1> QED
    BY <1>1, <1>2, <1>11, <1>13, <1>14, LoadNests DEF d, v

-----------------------------------------------------------------------------
(* The requests of the user keep the lists and the entries together.       *)

\* The view keeps its lists and entries, and the chains stay.
LEMMA LikeStays ==
    ASSUME LInv, NInv, LikeView(state, state'), LikeHeld(resources, resources'),
           chains' = chains,
           \/ ~state.open \/ state.phase # "loading"
           \/ state'.open = state.open /\ state'.phase = state.phase
    PROVE  NGoal
  <1>1. /\ Nest(state) /\ Shows(state, resources) /\ OneRequest(state, chains)
        /\ \A t \in Slots : Brings(chains[t], state, resources)
    BY DEF NInv, Nests
  <1>2. /\ Nest(state') /\ Shows(state', resources')
        /\ \A t \in Slots : Brings(chains[t], state', resources')
    BY <1>1, LikeNests
  <1>3. OneRequest(state', chains)
    BY <1>1, NoneStops DEF OneRequest
  <1> QED
    BY <1>2, <1>3 DEF NGoal, Nests

\* The browser signs out with nothing under way.
LEMMA ForgottenStays ==
    ASSUME LInv, NInv, state' \in {SignedOut, Closed}, resources' = NoResources,
           chains' = chains, ~state.open \/ state.phase # "loading"
    PROVE  NGoal
  <1>1. Nest(state') /\ Shows(state', resources')
    BY EmptyNests, EmptyShows, EmptyViews DEF EmptyView
  <1>2. \A t \in Slots : ~Stops(chains[t]) /\ Brings(chains[t], state', resources')
    BY NoneStops
  <1> QED
    BY <1>1, <1>2 DEF NGoal, Nests, OneRequest

LEMMA ForgottenEnds ==
    ASSUME LInv, NInv, state' \in {SignedOut, Closed}, resources' = NoResources,
           chains' \in {Ended, Superseded}
    PROVE  NGoal
  <1>1. Nest(state') /\ Shows(state', resources')
    BY EmptyNests, EmptyShows, EmptyViews DEF EmptyView
  <1> QED
    BY <1>1, OvertakenNests

LEMMA RefreshNests ==
    ASSUME LInv, NInv, NEW s \in Slots, ~state.open \/ state.phase # "loading",
           \/ state.mode = "public" /\ RefreshPublic(s)
           \/ state.mode = "authenticated" /\ RefreshResources(s)
    PROVE  NGoal
  <1>1. CASE RefreshPublic(s) /\ Complete(resources.container)
    <2>1. LoadLocation(s, resources.container, resources.folder, 0, FALSE, NoOp, Inherited)
      BY <1>1 DEF RefreshPublic
    <2> QED
      BY <1>1, <2>1, LoadLocationNests
  <1>2. CASE RefreshPublic(s) /\ ~Complete(resources.container)
    <2>1. state' = Failed(state, "other") /\ UNCHANGED << chains, resources >>
      BY <1>2 DEF RefreshPublic
    <2> QED
      BY <2>1, LikeViews, LikeStays DEF LikeHeld
  <1>3. CASE RefreshResources(s) /\ (needsConnect \/ account = None)
    <2>1. state' = SignedOut /\ resources' = NoResources /\ chains' = chains
      BY <1>3 DEF RefreshResources
    <2> QED
      BY <2>1, ForgottenStays
  <1>4. CASE RefreshResources(s) /\ ~(needsConnect \/ account = None)
    <2> DEFINE v == [Closed EXCEPT !.open = TRUE, !.identity = state.identity]
    <2>1. Discover(s, FALSE, account, NoOp, Inherited, v, NoResources)
      BY <1>4 DEF RefreshResources
    <2>2. IsView(v) /\ EmptyView(v)
      BY DEF IsView, EmptyView, Closed
    <2>3. IsHeld(NoResources)
      BY Places DEF IsHeld
    <2> HIDE DEF v
    <2>4. Nest(v) /\ Shows(v, NoResources)
      BY <2>2, EmptyNests, EmptyShows, EmptyViews DEF EmptyView
    <2> QED
      BY <2>1, <2>2, <2>3, <2>4, DiscoverNests
  <1> QED
    BY <1>1, <1>2, <1>3, <1>4

LEMMA OpenNests ==
    ASSUME ActsOnWhatIsShown, LInv, NInv, NEW s \in Slots, Open(s)
    PROVE  NGoal
  <1>1. ~state.open
    BY DEF Open, ActsOnWhatIsShown
  <1>2. CASE \/ state.mode = "public" /\ RefreshPublic(s)
             \/ state.mode = "authenticated" /\ RefreshResources(s)
    BY <1>1, <1>2, RefreshNests
  <1>3. CASE state' = SignedOut /\ resources' = NoResources /\ chains' = chains
    BY <1>1, <1>3, ForgottenStays
  <1>4. CASE /\ UNCHANGED << chains, resources >>
             /\ \/ state' = [state EXCEPT !.open = TRUE, !.phase = "error"]
                \/ state' = [state EXCEPT !.open = TRUE, !.phase = "ready"]
                \/ state' = [state EXCEPT !.open = TRUE, !.phase = "ready", !.error = "none"]
    <2>1. LikeView(state, state')
      BY <1>4, SameViews, ViewFields DEF IsView, LikeView
    <2> QED
      BY <1>1, <1>4, <2>1, LikeStays DEF LikeHeld
  <1> QED
    BY <1>2, <1>3, <1>4 DEF Open

LEMMA ConnectNests ==
    ASSUME LInv, NInv, NEW s \in Slots, Connect(s)
    PROVE  NGoal
  <1> DEFINE leaves == state.mode = "public"
             kept == [slot |-> s, changed |-> op.changed \/ deferred]
             shown == IF leaves THEN SignedOut ELSE state
             held == IF leaves THEN NoResources ELSE resources
  <1>1. Discover(s, TRUE, account, kept, FALSE, shown, held)
    BY DEF Connect
  <1>2. IsView(shown) /\ IsHeld(held)
    BY SignedOutIsView, SameViews, Places DEF LInv, IsHeld
  <1>3. Nest(SignedOut) /\ Shows(SignedOut, NoResources)
    BY EmptyNests, EmptyShows, EmptyViews DEF EmptyView
  <1>4. Nest(shown) /\ Shows(shown, held)
    BY <1>3 DEF NInv, Nests
  <1> HIDE DEF kept, shown, held
  <1> QED
    BY <1>1, <1>2, <1>4, DiscoverNests

LEMMA OpenPublicNests ==
    ASSUME LInv, NInv, NEW s \in Slots, OpenPublic(s)
    PROVE  NGoal
  <1>1. CASE /\ state' = Failed([Closed EXCEPT !.mode = "public"], "other")
             /\ resources' = [NoResources EXCEPT !.retry = "location"] /\ chains' = Ended
    <2>1. EmptyView(state')
      BY <1>1 DEF EmptyView, Failed, Closed
    <2>2. resources'.next = 0 /\ resources'.folder = None
      BY <1>1 DEF NoResources
    <2>3. Nest(state') /\ Shows(state', resources')
      BY <2>1, <2>2, EmptyNests, EmptyShows DEF EmptyView
    <2> QED
      BY <1>1, <2>3, OvertakenNests
  <1>2. ASSUME NEW store \in PublicStores, NEW container \in Containers,
               NEW folder \in OrNone(Folders), NEW a,
               PublicChoice(s, store, container, folder, a),
               resources' = [NoResources EXCEPT !.retry = "location",
                                !.container = container, !.folder = folder]
        PROVE  NGoal
    <2> DEFINE c == [a EXCEPT !.at = "list", !.cur = TRUE]
               of == [Nowhere EXCEPT !.store = store, !.container = container,
                                     !.folder = folder]
    <2>1. a = Ask("location", FALSE, FALSE, Anonymous, of)
      BY <1>2 DEF PublicChoice
    <2>2. EmptyView(state') /\ state'.mode = "public" /\ state'.public = store
          /\ state'.open /\ state'.phase = "loading"
      BY <1>2 DEF PublicChoice, EmptyView, Closed
    <2>3. resources'.next = 0 /\ resources'.container = container
          /\ resources'.folder = folder
      BY <1>2 DEF NoResources
    <2>4. container # None /\ store # None
      BY NameAssumption
    <2>5. of = PlaceOf(state', resources')
      BY <2>2, <2>3 DEF PlaceOf, PublicPlace
    <2>6. TargetOf(state') # Nowhere
      <3>1. TargetOf(state') = [Nowhere EXCEPT !.store = store]
        BY <2>2, <2>4 DEF TargetOf
      <3>2. TargetOf(state').store = store /\ Nowhere.store = None
        BY <3>1 DEF Nowhere
      <3> QED
        BY <2>4, <3>2
    <2> HIDE DEF of
    <2>7. IsChain(a) /\ a.stage = "location" /\ a.of = of /\ a.more = 0
      BY <2>1, ChainFields DEF Ask, IsChain, IdleChain
    <2>8. c.stage = "location" /\ c.of = of /\ c.more = 0
      BY <2>7, ChainFields DEF IsChain
    <2>9. chains' = [Ended EXCEPT ![s] = c]
      BY <1>2 DEF PublicChoice
    <2> HIDE DEF c
    <2>10. Nest(state') /\ Shows(state', resources')
      BY <2>2, <2>3, <2>4, EmptyNests, EmptyShows DEF EmptyView
    <2>11. Brings(c, state', resources')
      BY <2>5, <2>6, <2>8 DEF Brings, PageStages
    <2> QED
      BY <2>2, <2>9, <2>10, <2>11, NewNests
  <1> QED
    BY <1>1, <1>2, OpenPublicHolds

LEMMA RetryNests ==
    ASSUME LInv, NInv, NEW s \in Slots, Retry(s)
    PROVE  NGoal
  <1> DEFINE asks == state.mode = "authenticated" /\ Interactive
             kept == IF asks THEN [slot |-> s, changed |-> op.changed \/ deferred] ELSE NoOp
             pending == ~asks /\ Inherited
  <1>1. \/ /\ Complete(resources.container)
           /\ LoadLocation(s, resources.container, resources.folder, 0, asks, kept, pending)
        \/ UNCHANGED << view, chains, op, deferred >>
        \/ /\ state.mode = "authenticated"
           /\ \/ Discover(s, asks, account, kept, pending, state, resources)
              \/ /\ state.tenant \in state.tenants.names
                 /\ SelectTenant(s, state.tenant, asks, FALSE, kept, pending, state)
              \/ /\ state.sub \in state.subs.names
                 /\ SelectSubscription(s, state.sub, asks, FALSE, kept, pending, state)
              \/ /\ Target # Nowhere
                 /\ SelectAccount(s, state.store, asks, kept, pending)
    BY Zenon DEF Retry
  <1>2. IsView(state) /\ IsHeld(resources) /\ Nest(state) /\ Shows(state, resources)
    BY SameViews DEF LInv, NInv, Nests
  <1> HIDE DEF asks, kept, pending
  <1>3. CASE /\ Complete(resources.container)
             /\ LoadLocation(s, resources.container, resources.folder, 0, asks, kept, pending)
    BY <1>3, LoadLocationNests
  <1>4. CASE UNCHANGED << view, chains, op, deferred >>
    BY <1>4, UnchangedNests DEF view
  <1>5. CASE Discover(s, asks, account, kept, pending, state, resources)
    BY <1>2, <1>5, DiscoverNests
  <1>6. CASE /\ state.mode = "authenticated" /\ state.tenant \in state.tenants.names
             /\ SelectTenant(s, state.tenant, asks, FALSE, kept, pending, state)
    BY <1>2, <1>6, SelectTenantNests
  <1>7. CASE /\ state.mode = "authenticated" /\ state.sub \in state.subs.names
             /\ SelectSubscription(s, state.sub, asks, FALSE, kept, pending, state)
    BY <1>2, <1>7, SelectSubscriptionNests
  <1>8. CASE /\ state.mode = "authenticated" /\ Target # Nowhere
             /\ SelectAccount(s, state.store, asks, kept, pending)
    <2>1. state.store \in state.stores.names
      BY <1>8 DEF Target
    <2> QED
      BY <1>8, <2>1, SelectAccountNests
  <1> QED
    BY <1>1, <1>3, <1>4, <1>5, <1>6, <1>7, <1>8

LEMMA ChoiceNests ==
    ASSUME LInv, NInv, NEW s \in Slots,
           \/ \E tenant \in Tenants : ChooseTenant(s, tenant)
           \/ \E sub \in Subscriptions : ChooseSubscription(s, sub)
           \/ \E store \in Stores : ChooseAccount(s, store)
    PROVE  NGoal
  <1>1. IsView(state) /\ Nest(state)
    BY SameViews DEF NInv, Nests
  <1>2. ASSUME NEW tenant \in Tenants, ChooseTenant(s, tenant) PROVE NGoal
    <2>1. SelectTenant(s, tenant, FALSE, FALSE, NoOp, Inherited, state)
          /\ state.mode = "authenticated" /\ tenant \in state.tenants.names
      BY <1>2 DEF ChooseTenant
    <2> QED
      BY <1>1, <2>1, SelectTenantNests
  <1>3. ASSUME NEW sub \in Subscriptions, ChooseSubscription(s, sub) PROVE NGoal
    <2>1. SelectSubscription(s, sub, FALSE, FALSE, NoOp, Inherited, state)
          /\ state.mode = "authenticated" /\ sub \in state.subs.names
      BY <1>3 DEF ChooseSubscription
    <2> QED
      BY <1>1, <2>1, SelectSubscriptionNests
  <1>4. ASSUME NEW store \in Stores, ChooseAccount(s, store) PROVE NGoal
    <2>1. SelectAccount(s, store, FALSE, NoOp, Inherited)
          /\ state.mode = "authenticated" /\ store \in state.stores.names
      BY <1>4 DEF ChooseAccount
    <2> QED
      BY <2>1, SelectAccountNests
  <1> QED
    BY <1>2, <1>3, <1>4

\* loadMore, of containers.
LEMMA MoreContainersNests ==
    ASSUME LInv, NInv, NEW s \in Slots, NEW a,
           a = Ask("containers", FALSE, FALSE, account, Target),
           Target # Nowhere, resources.container = None, resources.next # 0,
           Load(s, [a EXCEPT !.more = resources.next], NoOp, Inherited, state, resources)
    PROVE  NGoal
  <1> DEFINE c == [a EXCEPT !.more = resources.next]
             d == [c EXCEPT !.cur = TRUE]
             v == Loading(state)
  <1>1. IsChain(a) /\ a.stage = "containers" /\ a.of = Target
    BY ChainFields DEF Ask, IsChain, IdleChain
  <1>2. d.stage = "containers" /\ d.of = Target /\ d.more = resources.next
    BY <1>1, ChainFields DEF IsChain
  <1>3. Load(s, c, NoOp, Inherited, state, resources)
    OBVIOUS
  <1>4. Nest(state) /\ Shows(state, resources) /\ IsView(state)
    BY SameViews DEF NInv, Nests
  <1> HIDE DEF c, d, v
  <1>5. LikeView(state, v) /\ LikeHeld(resources, resources)
    BY LikeViews DEF v, LikeHeld
  <1>6. Nest(v) /\ Shows(v, resources) /\ TargetOf(v) = Target
    BY <1>4, <1>5, LikeNests, TargetIsOnDisplay
  <1>7. resources.folder = None
    BY <1>4 DEF Shows
  <1>8. Target = PlaceOf(v, resources)
    BY <1>6, <1>7, TargetIsHere
  <1>9. v.entries # <<>> /\ resources.next = Len(v.entries) + 1
    BY <1>6 DEF Shows
  <1>10. Brings(d, v, resources)
    BY <1>2, <1>6, <1>8, <1>9 DEF Brings, PageStages
  <1> QED
    BY <1>3, <1>4, <1>6, <1>10, LoadNests DEF d, v

LEMMA NavigateNests ==
    ASSUME ActsOnWhatIsShown, LInv, NInv, NEW s \in Slots, NavigateUp(s) \/ LoadMore(s)
    PROVE  NGoal
  <1>1. CASE NavigateUp(s)
    <2>1. LoadLocation(s, state.path[1], None, 0, FALSE, NoOp, Inherited)
          /\ Complete(state.path[1])
      BY <1>1 DEF NavigateUp
    <2> QED
      BY <2>1, LoadLocationNests
  <1>2. CASE /\ Complete(resources.container)
             /\ LoadLocation(s, resources.container, resources.folder, resources.next,
                             FALSE, NoOp, Inherited)
    BY <1>2, LoadLocationNests
  <1>3. ASSUME NEW a, a = Ask("containers", FALSE, FALSE, account, Target),
               Target # Nowhere, resources.container = None, resources.next # 0,
               Load(s, [a EXCEPT !.more = resources.next], NoOp, Inherited, state, resources)
        PROVE  NGoal
    BY <1>3, MoreContainersNests
  <1>4. LoadMore(s) =>
          \/ /\ Complete(resources.container)
             /\ LoadLocation(s, resources.container, resources.folder, resources.next,
                             FALSE, NoOp, Inherited)
          \/ \E a : /\ a = Ask("containers", FALSE, FALSE, account, Target)
                    /\ Target # Nowhere /\ resources.container = None
                    /\ resources.next # 0
                    /\ Load(s, [a EXCEPT !.more = resources.next], NoOp, Inherited,
                            state, resources)
    BY Zenon DEF LoadMore, ActsOnWhatIsShown
  <1> QED
    BY <1>1, <1>2, <1>3, <1>4, Zenon

\* An entry that can be clicked is of a storage account on display, so that its
\* folder can be loaded.
LEMMA OpenFolderNests ==
    ASSUME ActsOnWhatIsShown, LInv, NInv, NEW s \in Slots, NEW page \in resources.registry,
           NEW container \in Containers, NEW folder, OpenFolder(s, page, container, folder)
    PROVE  NGoal
  <1>1. \E i \in DOMAIN state.entries : state.entries[i] = page
    BY DEF OpenFolder, Clickable, ActsOnWhatIsShown
  <1>2. state.entries # <<>>
    BY <1>1
  <1>3. TargetOf(state) # Nowhere
    BY <1>2 DEF NInv, Nests, Shows
  <1>4. Complete(container)
    BY <1>3, TargetIsOnDisplay, TargetPlace, NameAssumption DEF Complete
  <1>5. LoadLocation(s, container, folder, 0, FALSE, NoOp, Inherited)
    BY <1>4 DEF OpenFolder
  <1> QED
    BY <1>4, <1>5, LoadLocationNests

LEMMA UserNests ==
    ASSUME ActsOnWhatIsShown, LInv, NInv, NEW s \in Slots, UserStep(s)
    PROVE  NGoal
  <1>1. CASE Refresh(s)
    <2>1. state.phase # "loading" /\ (state.mode # "public" => state.mode = "authenticated")
      BY <1>1 DEF Refresh, LInv, Coherent, Placed
    <2> QED
      BY <1>1, <2>1, RefreshNests DEF Refresh
  <1>2. CASE Open(s) \/ Connect(s) \/ OpenPublic(s) \/ Retry(s)
    BY <1>2, OpenNests, ConnectNests, OpenPublicNests, RetryNests
  <1>3. CASE NavigateUp(s) \/ LoadMore(s)
    BY <1>3, NavigateNests
  <1>4. CASE \/ \E tenant \in Tenants : ChooseTenant(s, tenant)
             \/ \E sub \in Subscriptions : ChooseSubscription(s, sub)
             \/ \E store \in Stores : ChooseAccount(s, store)
    BY <1>4, ChoiceNests
  <1>5. CASE \E page \in resources.registry, container \in Containers,
                folder \in OrNone(Folders) : OpenFolder(s, page, container, folder)
    BY <1>5, OpenFolderNests
  <1> QED
    BY <1>1, <1>2, <1>3, <1>4, <1>5 DEF UserStep

LEMMA InstantNests ==
    ASSUME ActsOnWhatIsShown, LInv, NInv, Instant
    PROVE  NGoal
  <1>1. CASE Disconnect \/ BrowseLocal
    <2>1. state' \in {SignedOut, Closed} /\ resources' = NoResources /\ chains' = Ended
      BY <1>1 DEF Disconnect, BrowseLocal
    <2> QED
      BY <2>1, ForgottenEnds
  <1>2. CASE Close
    <2>1. /\ chains' = Ended
          /\ \/ state' = Closed /\ resources' = NoResources
             \/ /\ state' = [state EXCEPT !.open = FALSE, !.phase = "closed"]
                /\ resources' = resources
      BY <1>2 DEF Close
    <2>2. CASE state' = Closed /\ resources' = NoResources
      BY <2>1, <2>2, ForgottenEnds
    <2>3. CASE /\ state' = [state EXCEPT !.open = FALSE, !.phase = "closed"]
               /\ resources' = resources
      <3>1. LikeView(state, state') /\ LikeHeld(resources, resources')
        BY <2>3, SameViews, ViewFields DEF IsView, LikeView, LikeHeld
      <3>2. Nest(state) /\ Shows(state, resources)
        BY DEF NInv, Nests
      <3>3. Nest(state') /\ Shows(state', resources')
        BY <3>1, <3>2, LikeNests
      <3> QED
        BY <2>1, <3>3, OvertakenNests
    <2> QED
      BY <2>1, <2>2, <2>3
  <1>3. ~StaleClick
    BY DEF StaleClick, ActsOnWhatIsShown
  <1>4. CASE CacheExpires
    <2>1. /\ UNCHANGED << state, chains >>
          /\ resources' = [resources EXCEPT !.fresh = "stale"]
      BY <1>4 DEF CacheExpires
    <2>2. LikeHeld(resources, resources')
      BY <2>1, Places DEF LInv, IsHeld, LikeHeld
    <2> QED
      BY <2>1, <2>2, LikeViews, LikeStays
  <1>5. CASE \E page \in resources.registry : OpenFile(page)
    <2>1. PICK page \in resources.registry : OpenFile(page)
      BY <1>5
    <2>2. UNCHANGED << chains, resources >> /\ state' = [state EXCEPT !.picked = page]
      BY <2>1 DEF OpenFile
    <2>3. LikeView(state, state') /\ state'.phase = state.phase /\ state'.open = state.open
      BY <2>2, SameViews, ViewFields DEF IsView, LikeView
    <2> QED
      BY <2>2, <2>3, LikeStays DEF LikeHeld
  <1> QED
    BY <1>1, <1>2, <1>3, <1>4, <1>5 DEF Instant

-----------------------------------------------------------------------------
(* The answers keep the lists and the entries together.                    *)

\* A chain moves on, and the view stays.
LEMMA MoveNests ==
    ASSUME LInv, NInv, NEW s \in Slots, NEW d, Brings(d, state, resources),
           d.cur = chains[s].cur, d.stage = chains[s].stage,
           chains' = [chains EXCEPT ![s] = d], UNCHANGED << state, resources >>
    PROVE  NGoal
  <1>1. Nest(state) /\ Shows(state, resources) /\ Beside(s, state, resources)
    BY BesideFacts DEF NInv, Nests
  <1>2. Stops(d) => Stops(chains[s])
    BY DEF Stops
  <1> QED
    BY <1>1, <1>2, OthersAside, OneNests

\* The place on display, in the container and folder the browser is in.
LEMMA StaysHere ==
    ASSUME NEW v, NEW r
    PROVE  [PlaceOf(v, r) EXCEPT !.container = r.container, !.folder = r.folder] =
              PlaceOf(v, r)
  <1>1. CASE v.mode = "public"
    <2>1. PlaceOf(v, r) = [tenant |-> None, sub |-> None, store |-> v.public,
                           container |-> r.container, folder |-> r.folder]
      <3>1. [Nowhere EXCEPT !.store = v.public] =
               [tenant |-> None, sub |-> None, store |-> v.public,
                container |-> None, folder |-> None]
        BY DEF Nowhere
      <3>2. [[tenant |-> None, sub |-> None, store |-> v.public,
              container |-> None, folder |-> None] EXCEPT !.container = r.container] =
               [tenant |-> None, sub |-> None, store |-> v.public,
                container |-> r.container, folder |-> None]
        OBVIOUS
      <3>3. [[tenant |-> None, sub |-> None, store |-> v.public,
              container |-> r.container, folder |-> None] EXCEPT !.folder = r.folder] =
               [tenant |-> None, sub |-> None, store |-> v.public,
                container |-> r.container, folder |-> r.folder]
        OBVIOUS
      <3> QED
        BY <1>1, <3>1, <3>2, <3>3 DEF PlaceOf, PublicPlace
    <2>2. [PlaceOf(v, r) EXCEPT !.container = r.container] = PlaceOf(v, r)
      BY <2>1
    <2>3. [PlaceOf(v, r) EXCEPT !.folder = r.folder] = PlaceOf(v, r)
      BY <2>1
    <2> QED
      BY <2>2, <2>3
  <1>2. CASE v.mode # "public"
    <2>1. PlaceOf(v, r) = [tenant |-> v.tenant, sub |-> v.sub, store |-> v.store,
                           container |-> r.container, folder |-> r.folder]
      BY <1>2 DEF PlaceOf
    <2>2. [PlaceOf(v, r) EXCEPT !.container = r.container] = PlaceOf(v, r)
      BY <2>1
    <2>3. [PlaceOf(v, r) EXCEPT !.folder = r.folder] = PlaceOf(v, r)
      BY <2>1
    <2> QED
      BY <2>2, <2>3
  <1> QED
    BY <1>1, <1>2

LEMMA GrantedNests ==
    ASSUME LInv, NInv, NEW s \in Slots, NEW a, a # None, IsCurrent(s), Granted(s, a)
    PROVE  NGoal
  <1> DEFINE of == IF chains[s].stage = "location"
                   THEN [chains[s].of EXCEPT !.container = resources.container,
                                             !.folder = resources.folder]
                   ELSE chains[s].of
             d == [chains[s] EXCEPT !.at = "list", !.who = a, !.of = of]
  <1>1. AreChains(chains) /\ IsChain(chains[s])
    BY SameViews DEF AreChains
  <1>2. Brings(chains[s], state, resources) /\ chains[s].cur
    BY DEF NInv, Nests, IsCurrent
  <1>3. chains' = [chains EXCEPT ![s] = d] /\ UNCHANGED << state, resources >>
    BY <1>1, ChainFields DEF Granted, AreChains, IsChain
  <1>4. of = chains[s].of
    <2>1. CASE chains[s].stage = "location"
      <3>1. chains[s].of = PlaceOf(state, resources)
        BY <1>2, <2>1 DEF Brings, PageStages
      <3> QED
        BY <2>1, <3>1, StaysHere
    <2>2. CASE chains[s].stage # "location"
      BY <2>2
    <2> QED
      BY <2>1, <2>2
  <1> HIDE DEF of
  <1>5. d.of = of /\ d.stage = chains[s].stage /\ d.cur = chains[s].cur
        /\ d.more = chains[s].more /\ d.who = a /\ d.at = "list"
    BY <1>1, ChainFields DEF IsChain
  <1> HIDE DEF d
  <1>6. Brings(d, state, resources)
    BY <1>2, <1>4, <1>5 DEF Brings
  <1> QED
    BY <1>3, <1>5, <1>6, MoveNests

\* The chain ends, and the view tells of the failure.
LEMMA FailedNests ==
    ASSUME LInv, NInv, NEW s \in Slots, NEW kind, Stops(chains[s]),
           Settle(s, Failed(state, kind), resources)
    PROVE  NGoal
  <1> DEFINE v == Failed(state, kind)
  <1>1. LikeView(state, v) /\ Settle(s, v, resources)
    BY LikeViews
  <1> HIDE DEF v
  <1> QED
    BY <1>1, LikeSettles

LEMMA SessionAnswersNests ==
    ASSUME LInv, NInv, NEW s \in Slots, SilentSession(s) \/ NoSilentSession(s)
    PROVE  NGoal
  <1>1. Stops(chains[s]) /\ IsCurrent(s) /\ chains[s].stage # "reconcile"
    BY DEF SilentSession, NoSilentSession, Stops, IsCurrent
  <1>2. CASE SilentSession(s)
    <2>1. PICK a \in Offered(s) : Granted(s, a)
      BY <1>2 DEF SilentSession
    <2>2. a # None
      BY <2>1 DEF Offered, NInv
    <2> QED
      BY <1>1, <2>1, <2>2, GrantedNests
  <1>3. CASE NoSilentSession(s)
    <2>1. \/ /\ UNCHANGED view
             /\ \/ chains' = [chains EXCEPT ![s].at = "prompt"]
                \/ chains' = [chains EXCEPT ![s].at = "fallback", ![s].who = None]
          \/ SettleSignedOut(s, chains)
          \/ Settle(s, Failed(state, "authorize"), resources)
      BY <1>3, Zenon DEF NoSilentSession
    <2>2. ASSUME NEW d, d.of = chains[s].of, d.stage = chains[s].stage,
                 d.cur = chains[s].cur, d.more = chains[s].more, d.at # "list",
                 chains' = [chains EXCEPT ![s] = d], UNCHANGED view
          PROVE  NGoal
      <3>1. Brings(chains[s], state, resources)
        BY DEF NInv, Nests
      <3>2. Brings(d, state, resources)
        BY <1>1, <2>2, <3>1 DEF Brings
      <3> QED
        BY <2>2, <3>2, MoveNests DEF view
    <2>3. CASE chains' = [chains EXCEPT ![s].at = "prompt"] /\ UNCHANGED view
      <3> DEFINE d == [chains[s] EXCEPT !.at = "prompt"]
      <3>1. chains' = [chains EXCEPT ![s] = d]
        BY <2>3
      <3>2. d.of = chains[s].of /\ d.stage = chains[s].stage /\ d.cur = chains[s].cur
            /\ d.more = chains[s].more /\ d.at # "list"
        BY SameViews, ChainFields DEF AreChains, IsChain
      <3> HIDE DEF d
      <3> QED
        BY <2>2, <2>3, <3>1, <3>2
    <2>4. CASE chains' = [chains EXCEPT ![s].at = "fallback", ![s].who = None]
               /\ UNCHANGED view
      <3> DEFINE d == [chains[s] EXCEPT !.at = "fallback", !.who = None]
      <3>1. chains' = [chains EXCEPT ![s] = d]
        BY <2>4, SameViews, ChainFields DEF AreChains, IsChain
      <3>2. d.of = chains[s].of /\ d.stage = chains[s].stage /\ d.cur = chains[s].cur
            /\ d.more = chains[s].more /\ d.at # "list"
        BY SameViews, ChainFields DEF AreChains, IsChain
      <3> HIDE DEF d
      <3> QED
        BY <2>2, <2>4, <3>1, <3>2
    <2>5. CASE SettleSignedOut(s, chains)
      BY <1>1, <2>5, SignedOutNests
    <2>6. CASE Settle(s, Failed(state, "authorize"), resources)
      BY <1>1, <2>6, FailedNests
    <2> QED
      BY <2>1, <2>3, <2>4, <2>5, <2>6
  <1> QED
    BY <1>2, <1>3

LEMMA EndsNests ==
    ASSUME LInv, NInv, NEW s \in Slots,
           Dropped(s) \/ StageFailed(s) \/ PromptRejected(s) \/ PromptGranted(s)
    PROVE  NGoal
  <1>1. CASE Settle(s, state, resources)
    BY <1>1, LikeViews, LikeSettles
  <1>2. ASSUME NEW kind, Stops(chains[s]), Settle(s, Failed(state, kind), resources)
        PROVE  NGoal
    BY <1>2, FailedNests
  <1>3. StageFailed(s) => Stops(chains[s])
    BY DEF StageFailed, Stops, IsCurrent
  <1>4. PromptRejected(s) /\ IsCurrent(s) => Stops(chains[s])
    <2>1. Brings(chains[s], state, resources)
      BY DEF NInv, Nests
    <2> QED
      BY <2>1 DEF PromptRejected, Stops, Brings, IsCurrent
  <1>5. CASE PromptGranted(s) /\ IsCurrent(s)
    <2>1. PICK a \in IF chains[s].who = None THEN Accounts ELSE {chains[s].who} : Granted(s, a)
      BY <1>5 DEF PromptGranted
    <2>2. a # None
      BY NameAssumption
    <2> QED
      BY <1>5, <2>1, <2>2, GrantedNests
  <1> QED
    BY <1>1, <1>2, <1>3, <1>4, <1>5 DEF Dropped, StageFailed, PromptRejected, PromptGranted

\* A stage of the hierarchy was listed: nothing else will write.
LEMMA ListedAlone ==
    ASSUME LInv, NInv, NEW s \in Slots, NEW stage, stage # "reconcile", Listed(s, stage)
    PROVE  /\ Stops(chains[s]) /\ chains[s].stage = stage /\ chains[s].cur
           /\ chains[s].at = "list"
           /\ Brings(chains[s], state, resources) /\ Fits(chains[s], state, resources)
           /\ \A v, r : Beside(s, v, r)
           /\ IsView(state) /\ IsHeld(resources) /\ Nest(state) /\ Shows(state, resources)
           /\ resources.container = None => resources.folder = None
  <1>1. Stops(chains[s]) /\ chains[s].stage = stage /\ chains[s].cur /\ chains[s].at = "list"
    BY DEF Listed, Stops, IsCurrent
  <1>2. Shows(state, resources)
    BY DEF NInv, Nests
  <1> QED
    BY <1>1, <1>2, BesideFacts, SameViews DEF NInv, Nests, LInv, Coherent, Shows

LEMMA DiscoverListedNests ==
    ASSUME LInv, NInv, NEW s \in Slots, DiscoverListed(s)
    PROVE  NGoal
  <1> DEFINE Shown(names) == [Closed EXCEPT !.open = state.open, !.mode = state.mode,
                !.public = state.public, !.phase = "ready", !.identity = chains[s].who,
                !.tenants = Listing(s, names)]
             asks == chains[s].asks
             h == [resources EXCEPT !.fresh = "fresh"]
  <1>1. Listed(s, "discover")
    BY DEF DiscoverListed
  <1>2. chains[s].who # None
    BY <1>1, ListedAlone DEF Brings
  <1>3. state.mode = "authenticated"
    <2>1. state.mode # "public"
      BY OtherChainsAreApart DEF DiscoverListed, Listed, LInv
    <2> QED
      BY <1>1, <2>1, ListedAlone DEF Nest
  <1>4. ASSUME NEW names
        PROVE  /\ IsView(Shown(names)) /\ Shown(names).mode = "authenticated"
               /\ Shown(names).tenants.names = names /\ Shown(names).identity = chains[s].who
               /\ Shown(names).tenant = None
               /\ Shown(names).subs = NoList /\ Shown(names).sub = None
               /\ Shown(names).stores = NoList /\ Shown(names).store = None
               /\ Shown(names).entries = <<>>
    BY <1>3 DEF IsView, Closed, Listing
  <1>5. \/ Settle(s, Shown({}), h)
        \/ \E tenant \in Tenants :
             SelectTenant(s, tenant, asks, TRUE, Kept(asks), Pending(asks), Shown(Tenants))
    BY Zenon DEF DiscoverListed
  <1>6. IsHeld(h) /\ LikeHeld(resources, h)
    BY <1>1, ListedAlone, Places DEF IsHeld, LikeHeld
  <1> HIDE DEF Shown, h
  <1>7. ASSUME NEW names
        PROVE  Nest(Shown(names)) /\ Shows(Shown(names), h)
    <2>1. Nest(Shown(names))
      BY <1>2, <1>4, Places DEF Nest, OrNone
    <2>2. TargetOf(Shown(names)) = Nowhere
      BY <1>4, NoTarget
    <2>3. h.container = None => h.folder = None
      BY <1>1, <1>6, ListedAlone DEF LikeHeld
    <2> QED
      BY <1>4, <2>1, <2>2, <2>3, EmptyShows
  <1>8. CASE Settle(s, Shown({}), h)
    BY <1>1, <1>6, <1>7, <1>8, ListedAlone, SettleNests
  <1>9. ASSUME NEW tenant \in Tenants,
               SelectTenant(s, tenant, asks, TRUE, Kept(asks), Pending(asks), Shown(Tenants))
        PROVE  NGoal
    <2> DEFINE v == Shown(Tenants)
    <2>1. IsView(v) /\ v.mode = "authenticated" /\ Nest(v) /\ tenant \in v.tenants.names
      BY <1>4, <1>7
    <2>2. SelectTenant(s, tenant, asks, TRUE, Kept(asks), Pending(asks), v)
      BY <1>9
    <2> HIDE DEF v
    <2> QED
      BY <2>1, <2>2, SelectTenantNests
  <1> QED
    BY <1>5, <1>8, <1>9

LEMMA TenantListedNests ==
    ASSUME LInv, NInv, NEW s \in Slots, TenantListed(s)
    PROVE  NGoal
  <1> DEFINE Shown(names) == [state EXCEPT !.phase = "ready", !.subs = Listing(s, names),
                                           !.sub = None]
             asks == chains[s].asks
             marks == chains[s].marks
  <1>1. Listed(s, "tenant")
    BY DEF TenantListed
  <1>2. /\ chains[s].of = [Nowhere EXCEPT !.tenant = state.tenant]
        /\ state.stores.names = {} /\ state.identity # None
    BY <1>1, ListedAlone DEF Brings
  <1>3. state.mode = "authenticated"
    <2>1. state.mode # "public"
      BY OtherChainsAreApart DEF TenantListed, Listed, LInv
    <2> QED
      BY <1>1, <2>1, ListedAlone DEF Nest
  <1>4. state.entries = <<>>
    BY <1>1, <1>2, <1>3, ListedAlone, NoTarget DEF Shows
  <1>5. ASSUME NEW names
        PROVE  /\ IsView(Shown(names)) /\ Shown(names).mode = "authenticated"
               /\ Shown(names).tenants = state.tenants /\ Shown(names).tenant = state.tenant
               /\ Shown(names).identity = state.identity
               /\ Shown(names).subs = Listing(s, names) /\ Shown(names).sub = None
               /\ Shown(names).stores = state.stores /\ Shown(names).store = state.store
               /\ Shown(names).entries = <<>>
    BY <1>1, <1>3, <1>4, ListedAlone, ViewFields DEF IsView
  <1>6. \/ Settle(s, Shown({}), resources)
        \/ \E sub \in Subscriptions :
             SelectSubscription(s, sub, asks, marks, Kept(asks), Pending(asks),
                                Shown(Subscriptions))
    BY Zenon DEF TenantListed
  <1>7. \A names : Listing(s, names).names = names /\ Listing(s, names).of = chains[s].of
    BY DEF Listing
  <1> HIDE DEF Shown
  <1>8. ASSUME NEW names
        PROVE  Nest(Shown(names)) /\ Shows(Shown(names), resources)
    <2>1. Nest(Shown(names))
      BY <1>1, <1>2, <1>5, <1>7, ListedAlone DEF Nest, OrNone
    <2>2. TargetOf(Shown(names)) = Nowhere
      BY <1>2, <1>5, NoTarget
    <2> QED
      BY <1>1, <1>5, <2>1, <2>2, ListedAlone, EmptyShows
  <1>9. CASE Settle(s, Shown({}), resources)
    BY <1>1, <1>8, <1>9, ListedAlone, SettleNests
  <1>10. ASSUME NEW sub \in Subscriptions,
                SelectSubscription(s, sub, asks, marks, Kept(asks), Pending(asks),
                                   Shown(Subscriptions))
         PROVE  NGoal
    <2>1. sub \in Shown(Subscriptions).subs.names
      BY <1>5, <1>7
    <2> QED
      BY <1>5, <1>8, <1>10, <2>1, SelectSubscriptionNests
  <1> QED
    BY <1>6, <1>9, <1>10

LEMMA SubscriptionListedNests ==
    ASSUME LInv, NInv, NEW s \in Slots, SubscriptionListed(s)
    PROVE  NGoal
  <1>1. PICK names \in {{}, Stores} :
           Settle(s, [state EXCEPT !.phase = "ready", !.stores = Listing(s, names)],
                  resources)
    BY DEF SubscriptionListed
  <1> DEFINE v == [state EXCEPT !.phase = "ready", !.stores = Listing(s, names)]
  <1>2. Listed(s, "subscription")
    BY DEF SubscriptionListed
  <1>3. /\ chains[s].of = [Nowhere EXCEPT !.tenant = state.tenant, !.sub = state.sub]
        /\ state.identity # None
    BY <1>2, ListedAlone DEF Brings
  <1>4. state.mode = "authenticated"
    <2>1. state.mode # "public"
      BY OtherChainsAreApart DEF SubscriptionListed, Listed, LInv
    <2> QED
      BY <1>2, <2>1, ListedAlone DEF Nest
  <1>5. state.store = None
    BY <1>2, ListedAlone DEF Fits
  <1>6. state.entries = <<>>
    <2>1. None \notin state.stores.names
      BY DEF LInv, Coherent, Placed
    <2>2. TargetOf(state) = Nowhere
      BY <1>4, <1>5, <2>1 DEF TargetOf
    <2> QED
      BY <1>2, <2>2, ListedAlone DEF Shows
  <1>7. /\ v.mode = "authenticated" /\ v.identity = state.identity
        /\ v.tenants = state.tenants /\ v.tenant = state.tenant
        /\ v.subs = state.subs /\ v.sub = state.sub
        /\ v.stores = Listing(s, names) /\ v.store = None /\ v.entries = <<>>
    BY <1>2, <1>4, <1>5, <1>6, ListedAlone, ViewFields DEF IsView
  <1>8. Listing(s, names).names = names /\ Listing(s, names).of = chains[s].of
        /\ None \notin names
    BY NameAssumption DEF Listing
  <1>9. Settle(s, v, resources)
    BY <1>1
  <1> HIDE DEF v
  <1>10. Nest(v)
    BY <1>2, <1>3, <1>7, <1>8, ListedAlone DEF Nest, OrNone
  <1>11. TargetOf(v) = Nowhere
    BY <1>7, <1>8 DEF TargetOf
  <1>12. Shows(v, resources)
    BY <1>2, <1>7, <1>11, ListedAlone, EmptyShows
  <1> QED
    BY <1>2, <1>9, <1>10, <1>12, ListedAlone, SettleNests

\* The continuation is of the page that was listed.
LEMMA PageListedNext ==
    ASSUME NEW s \in Slots, PageListed(s)
    PROVE  LET chain == chains[s]
               page == [by |-> chain.who, of |-> chain.of,
                        n |-> IF chain.more = 0 THEN 1 ELSE chain.more]
               entries == IF chain.more = 0 THEN <<page>> ELSE Append(state.entries, page)
           IN  \E next \in {0} \cup ({page.n + 1} \cap 1..MaxPages) :
                 Settle(s, [state EXCEPT !.phase = "ready", !.error = "none",
                                !.path = Path(resources.container, resources.folder),
                                !.entries = entries],
                        [resources EXCEPT !.next = next,
                            !.registry = IF chain.more = 0 THEN {page} ELSE @ \cup {page},
                            !.fresh = IF state.mode = "public" THEN "fresh" ELSE @])
  BY Zenon DEF PageListed

\* The pages of one place in order, and one more of them.
LEMMA AppendsInOrder ==
    ASSUME NEW entries, NEW page, NEW place, \E S : entries \in Seq(S),
           page.n = Len(entries) + 1, page.of = place,
           \A i \in DOMAIN entries : entries[i].n = i /\ entries[i].of = place
    PROVE  /\ \E S : Append(entries, page) \in Seq(S)
           /\ Append(entries, page) # <<>> /\ Len(Append(entries, page)) = Len(entries) + 1
           /\ \A i \in DOMAIN Append(entries, page) :
                 /\ Append(entries, page)[i].n = i
                 /\ Append(entries, page)[i].of = place
  <1>1. PICK S : entries \in Seq(S)
    OBVIOUS
  <1> DEFINE T == S \cup {page}
             longer == Append(entries, page)
  <1>2. entries \in Seq(T) /\ page \in T
    BY <1>1
  <1> HIDE DEF T
  <1>3. /\ Len(entries) \in Nat /\ DOMAIN entries = 1..Len(entries)
        /\ longer \in Seq(T) /\ Len(longer) = Len(entries) + 1
        /\ DOMAIN longer = 1..(Len(entries) + 1)
        /\ \A i \in 1..Len(entries) : longer[i] = entries[i]
        /\ longer[Len(entries) + 1] = page
    BY <1>2
  <1>4. longer # <<>>
    BY <1>3
  <1> HIDE DEF longer
  <1>5. ASSUME NEW i \in 1..(Len(entries) + 1)
        PROVE  longer[i].n = i /\ longer[i].of = place
    <2>1. CASE i = Len(entries) + 1
      BY <1>3, <2>1
    <2>2. CASE i # Len(entries) + 1
      <3>1. i \in 1..Len(entries)
        BY <1>3, <2>2
      <3> QED
        BY <1>3, <3>1
    <2> QED
      BY <2>1, <2>2
  <1> QED
    BY <1>3, <1>4, <1>5 DEF longer

LEMMA PageListedNests ==
    ASSUME LInv, NInv, NEW s \in Slots, PageListed(s)
    PROVE  NGoal
  <1> DEFINE chain == chains[s]
             page == [by |-> chain.who, of |-> chain.of,
                      n |-> IF chain.more = 0 THEN 1 ELSE chain.more]
             entries == IF chain.more = 0 THEN <<page>> ELSE Append(state.entries, page)
             v == [state EXCEPT !.phase = "ready", !.error = "none",
                          !.path = Path(resources.container, resources.folder),
                          !.entries = entries]
             Held(next) == [resources EXCEPT !.next = next,
                            !.registry = IF chain.more = 0 THEN {page} ELSE @ \cup {page},
                            !.fresh = IF state.mode = "public" THEN "fresh" ELSE @]
  <1>1. PICK next \in {0} \cup ({page.n + 1} \cap 1..MaxPages) : Settle(s, v, Held(next))
    BY PageListedNext
  <1> DEFINE h == Held(next)
  <1>2. PICK stage \in PageStages : Listed(s, stage)
    BY DEF PageListed, PageStages
  <1>3. stage # "reconcile"
    BY DEF PageStages
  <1>4. /\ Stops(chain) /\ Brings(chain, state, resources) /\ chain.cur
        /\ chain.stage \in PageStages /\ Beside(s, v, h)
        /\ IsView(state) /\ IsHeld(resources) /\ Nest(state) /\ Shows(state, resources)
    BY <1>2, <1>3, ListedAlone
  <1>5. /\ chain.of = PlaceOf(state, resources) /\ TargetOf(state) # Nowhere
        /\ chain.more # 0 => state.entries # <<>> /\ chain.more = Len(state.entries) + 1
    BY <1>4 DEF Brings
  <1>6. page.of = chain.of /\ page.n = (IF chain.more = 0 THEN 1 ELSE chain.more)
    OBVIOUS
  <1>7. next = 0 \/ next = page.n + 1
    OBVIOUS
  <1>8. IsHeld(h) /\ h.container = resources.container /\ h.folder = resources.folder
        /\ h.next = next
    BY <1>4, Places DEF IsHeld
  <1>9. /\ v.mode = state.mode /\ v.public = state.public /\ v.identity = state.identity
        /\ v.tenants = state.tenants /\ v.tenant = state.tenant
        /\ v.subs = state.subs /\ v.sub = state.sub
        /\ v.stores = state.stores /\ v.store = state.store
        /\ v.path = Path(resources.container, resources.folder) /\ v.entries = entries
    BY <1>4, ViewFields DEF IsView
  <1>10. Settle(s, v, h)
    BY <1>1
  <1>11. /\ chain.more = 0 => entries = <<page>>
         /\ chain.more # 0 => entries = Append(state.entries, page)
    OBVIOUS
  <1> HIDE DEF chain, page, entries, v, h, Held
  <1>12. TargetOf(v) = TargetOf(state) /\ PlaceOf(v, h) = PlaceOf(state, resources)
    BY <1>8, <1>9 DEF TargetOf, PlaceOf, PublicPlace
  <1>13. /\ \E S : entries \in Seq(S)
         /\ entries # <<>> /\ Len(entries) = page.n
         /\ \A i \in DOMAIN entries : entries[i].n = i /\ entries[i].of = chain.of
    <2>1. CASE chain.more = 0
      <3>1. /\ <<page>> \in Seq({page}) /\ <<page>> # <<>> /\ Len(<<page>>) = 1
            /\ DOMAIN <<page>> = {1} /\ <<page>>[1] = page
        OBVIOUS
      <3> QED
        BY <1>6, <1>11, <2>1, <3>1
    <2>2. CASE chain.more # 0
      <3>1. /\ \E S : state.entries \in Seq(S)
            /\ \A i \in DOMAIN state.entries :
                  state.entries[i].n = i /\ state.entries[i].of = chain.of
        BY <1>4, <1>5 DEF Shows
      <3>2. page.n = Len(state.entries) + 1 /\ page.of = chain.of
        BY <1>5, <1>6, <2>2
      <3> DEFINE longer == Append(state.entries, page)
      <3>3. /\ \E S : longer \in Seq(S)
            /\ longer # <<>> /\ Len(longer) = Len(state.entries) + 1
            /\ \A i \in DOMAIN longer : longer[i].n = i /\ longer[i].of = chain.of
        BY <3>1, <3>2, AppendsInOrder
      <3> QED
        BY <1>11, <2>2, <3>2, <3>3
    <2> QED
      BY <2>1, <2>2
  <1>14. Nest(v)
    BY <1>4, <1>9 DEF Nest
  <1>15. Shows(v, h)
    BY <1>4, <1>5, <1>7, <1>8, <1>9, <1>12, <1>13 DEF Shows
  <1> QED
    BY <1>4, <1>8, <1>10, <1>14, <1>15, SettleNests

LEMMA ProvedNests ==
    ASSUME LInv, NInv, NEW s \in Slots, Proved(s)
    PROVE  NGoal
  <1> DEFINE d == [chains[s] EXCEPT !.at = "proved"]
  <1>1. chains' = [chains EXCEPT ![s] = d] /\ UNCHANGED << state, resources >>
    BY DEF Proved, view
  <1>2. d.of = chains[s].of /\ d.stage = chains[s].stage /\ d.cur = chains[s].cur
        /\ d.more = chains[s].more /\ d.who = chains[s].who /\ d.at = "proved"
    BY SameViews, ChainFields DEF AreChains, IsChain
  <1> HIDE DEF d
  <1>3. Brings(chains[s], state, resources)
    BY DEF NInv, Nests
  <1>4. Brings(d, state, resources)
    BY <1>2, <1>3 DEF Brings
  <1> QED
    BY <1>1, <1>2, <1>4, MoveNests

LEMMA ReconciledNests ==
    ASSUME LInv, NInv, NEW s \in Slots, Reconciled(s)
    PROVE  NGoal
  <1>1. \/ /\ chains' = [chains EXCEPT ![s] = IdleChain]
           /\ UNCHANGED << state, resources >>
        \/ /\ chains' = [chains EXCEPT ![s] = IdleChain] /\ IsCurrent(s)
           /\ state' = [state EXCEPT !.identity = chains[s].who]
           /\ UNCHANGED resources
        \/ Rediscover(s, None, FALSE)
        \/ SettleSignedOut(s, Superseded)
    BY Zenon DEF Reconciled, view
  <1>2. Nest(state) /\ Shows(state, resources) /\ Beside(s, state, resources)
        /\ Brings(chains[s], state, resources) /\ IsView(state)
    BY BesideFacts, SameViews DEF NInv, Nests
  <1>3. ASSUME NEW v, NEW r PROVE ~Stops(IdleChain) /\ Brings(IdleChain, v, r)
    BY Places DEF Stops, Brings
  <1>4. CASE /\ chains' = [chains EXCEPT ![s] = IdleChain]
             /\ UNCHANGED << state, resources >>
    BY <1>2, <1>3, <1>4, OneNests
  <1>5. CASE /\ chains' = [chains EXCEPT ![s] = IdleChain] /\ IsCurrent(s)
             /\ state' = [state EXCEPT !.identity = chains[s].who]
             /\ UNCHANGED resources
    <2>1. chains[s].who # None
      BY <1>2, <1>5 DEF Brings, Reconciled, IsCurrent
    <2>2. /\ state'.identity # None /\ state'.open = state.open /\ state'.phase = state.phase
          /\ state'.mode = state.mode /\ state'.public = state.public
          /\ state'.tenants = state.tenants /\ state'.tenant = state.tenant
          /\ state'.subs = state.subs /\ state'.sub = state.sub
          /\ state'.stores = state.stores /\ state'.store = state.store
          /\ state'.path = state.path /\ state'.entries = state.entries
      BY <1>2, <1>5, <2>1, ViewFields DEF IsView
    <2>3. TargetOf(state') = TargetOf(state)
          /\ PlaceOf(state', resources) = PlaceOf(state, resources)
      BY <2>2 DEF TargetOf, PlaceOf, PublicPlace
    <2>4. Nest(state')
      BY <1>2, <2>2 DEF Nest
    <2>5. Shows(state', resources)
      BY <1>2, <2>2, <2>3 DEF Shows
    <2>6. \A c : Brings(c, state, resources) => Brings(c, state', resources)
      BY <2>2, <2>3 DEF Brings
    <2>7. Beside(s, state', resources)
      BY <1>2, <2>2, <2>6 DEF Beside
    <2> QED
      BY <1>3, <1>5, <2>4, <2>5, <2>7, OneNests
  <1>6. CASE Rediscover(s, None, FALSE)
    BY <1>6, RediscoverNests
  <1>7. CASE SettleSignedOut(s, Superseded)
    BY <1>7, SignedOutNests
  <1> QED
    BY <1>1, <1>4, <1>5, <1>6, <1>7

LEMMA ProviderEventNests ==
    ASSUME LInv, NInv, NEW s \in Slots, ProviderEvent(s)
    PROVE  NGoal
  <1>1. CASE UNCHANGED << view, chains >>
    BY <1>1, UnchangedNests DEF view
  <1>2. CASE Reconcile(s, state, resources, FALSE)
    <2>1. Nest(state) /\ Shows(state, resources) /\ Beside(s, state, resources)
      BY BesideFacts DEF NInv, Nests
    <2> QED
      BY <1>2, <2>1, ReconcileNests
  <1>3. CASE state' = Closed /\ resources' = NoResources /\ chains' = Superseded
    BY <1>3, ForgottenEnds
  <1> QED
    BY <1>1, <1>2, <1>3 DEF ProviderEvent

LEMMA NextNests ==
    ASSUME ActsOnWhatIsShown, LInv, NInv, [Next]_vars
    PROVE  NGoal
  <1>1. ASSUME NEW s \in Slots, UserStep(s) PROVE NGoal
    BY <1>1, UserNests
  <1>2. ASSUME NEW s \in Slots, Answer(s) PROVE NGoal
    <2>1. CASE SilentSession(s) \/ NoSilentSession(s)
      BY <2>1, SessionAnswersNests
    <2>2. CASE Dropped(s) \/ StageFailed(s)
      BY <2>2, EndsNests
    <2>3. CASE DiscoverListed(s) \/ TenantListed(s) \/ SubscriptionListed(s)
      BY <2>3, DiscoverListedNests, TenantListedNests, SubscriptionListedNests
    <2>4. CASE PageListed(s) \/ Proved(s) \/ Reconciled(s)
      BY <2>4, PageListedNests, ProvedNests, ReconciledNests
    <2> QED
      BY <1>2, <2>1, <2>2, <2>3, <2>4 DEF Answer
  <1>3. ASSUME NEW s \in Slots, Prompt(s) PROVE NGoal
    BY <1>3, EndsNests DEF Prompt
  <1>4. ASSUME NEW s \in Slots, ProviderEvent(s) PROVE NGoal
    BY <1>4, ProviderEventNests
  <1>5. CASE Instant
    BY <1>5, InstantNests
  <1>6. CASE UNCHANGED << state, resources, chains >>
    BY <1>6, UnchangedNests
  <1>7. ASSUME NEW a \in Accounts, SessionsChange(a) PROVE NGoal
    BY <1>6, <1>7 DEF SessionsChange, view
  <1> QED
    BY <1>1, <1>2, <1>3, <1>4, <1>5, <1>6, <1>7 DEF Next, vars, view

\* Only sign-ins, sign-outs and their events are of the provider.
LEMMA ProviderStays ==
    /\ \A s \in Slots : UserStep(s) \/ Answer(s) \/ PromptRejected(s) => UNCHANGED provider
    /\ Instant => UNCHANGED provider
  <1>1. ASSUME NEW s \in Slots, UserStep(s)
        PROVE  UNCHANGED provider
    <2>1. Open(s) \/ Connect(s) \/ OpenPublic(s) \/ Refresh(s) => UNCHANGED provider
      BY Zenon DEF Open, Connect, OpenPublic, Refresh
    <2>2. Retry(s) \/ NavigateUp(s) \/ LoadMore(s) => UNCHANGED provider
      BY Zenon DEF Retry, NavigateUp, LoadMore, Quietly
    <2>3. \A x : ChooseTenant(s, x) \/ ChooseSubscription(s, x) \/ ChooseAccount(s, x)
                   => UNCHANGED provider
      BY Zenon DEF ChooseTenant, ChooseSubscription, ChooseAccount, Quietly
    <2>4. \A p, c, f : OpenFolder(s, p, c, f) => UNCHANGED provider
      BY Zenon DEF OpenFolder, Quietly
    <2> QED
      BY <1>1, <2>1, <2>2, <2>3, <2>4, Zenon DEF UserStep
  <1>2. ASSUME NEW s \in Slots, Answer(s) \/ PromptRejected(s)
        PROVE  UNCHANGED provider
    <2>1. SilentSession(s) \/ NoSilentSession(s) \/ Dropped(s) \/ StageFailed(s)
             => UNCHANGED provider
      BY Zenon DEF SilentSession, NoSilentSession, Dropped, StageFailed
    <2>2. DiscoverListed(s) \/ TenantListed(s) \/ SubscriptionListed(s) \/ PageListed(s)
             => UNCHANGED provider
      BY Zenon DEF DiscoverListed, TenantListed, SubscriptionListed, PageListed
    <2>3. Proved(s) \/ Reconciled(s) \/ PromptRejected(s) => UNCHANGED provider
      BY Zenon DEF Proved, Reconciled, PromptRejected
    <2> QED
      BY <1>2, <2>1, <2>2, <2>3, Zenon DEF Answer
  <1>3. ASSUME Instant PROVE UNCHANGED provider
    <2>1. Disconnect \/ BrowseLocal \/ Close \/ StaleClick \/ CacheExpires
             => UNCHANGED provider
      BY Zenon DEF Disconnect, BrowseLocal, Close, StaleClick, CacheExpires
    <2>2. \A page : OpenFile(page) => UNCHANGED provider
      BY Zenon DEF OpenFile
    <2> QED
      BY <1>3, <2>1, <2>2, Zenon DEF Instant
  <1> QED
    BY <1>1, <1>2, <1>3

\* No session is of nobody.
LEMMA NextSignedIn ==
    ASSUME None \notin signedIn, [Next]_vars
    PROVE  None \notin signedIn'
  <1>1. ASSUME NEW s \in Slots, UserStep(s) \/ Answer(s) \/ PromptRejected(s)
        PROVE  signedIn' = signedIn
    <2>1. UNCHANGED provider
      BY <1>1, ProviderStays
    <2> QED
      BY <2>1 DEF provider
  <1>2. Instant => signedIn' = signedIn
    BY ProviderStays DEF provider
  <1>3. \A s \in Slots : ProviderEvent(s) => signedIn' = signedIn
    BY DEF ProviderEvent
  <1>4. ASSUME NEW a \in Accounts, SessionsChange(a) PROVE None \notin signedIn'
    BY <1>4, NameAssumption DEF SessionsChange
  <1>5. ASSUME NEW s \in Slots, PromptGranted(s) PROVE None \notin signedIn'
    <2>1. PICK a \in IF chains[s].who = None THEN Accounts ELSE {chains[s].who} :
             signedIn' = signedIn \cup {a}
      BY <1>5 DEF PromptGranted
    <2>2. a # None
      BY NameAssumption
    <2> QED
      BY <2>1, <2>2
  <1> QED
    BY <1>1, <1>2, <1>3, <1>4, <1>5 DEF Next, Prompt, vars, provider

(* For any hierarchy, pages, changes of the sessions and number of requests *)
(* under way, while the user acts on what the browser shows: the view       *)
(* nests, and every answer that may still write brings what belongs below   *)
(* the choices on display (selectTenant, selectSubscription, selectAccount, *)
(* loadLocation, applyItems).                                               *)
THEOREM PlacesNest == ActsOnWhatIsShown => (Spec => []NInv)
  <1> SUFFICES ASSUME ActsOnWhatIsShown PROVE Spec => []NInv
    OBVIOUS
  <1>1. Init => NInv
    <2> SUFFICES ASSUME Init PROVE NInv
      OBVIOUS
    <2>1. Nest(state) /\ Shows(state, resources)
      BY EmptyNests, EmptyShows, EmptyViews DEF Init, EmptyView
    <2>2. \A t \in Slots : chains[t].cur = FALSE
      BY Places DEF Init
    <2>3. \A t \in Slots : ~Stops(chains[t]) /\ Brings(chains[t], state, resources)
      BY <2>2 DEF Stops, Brings
    <2>4. None \notin signedIn
      BY NameAssumption DEF Init
    <2> QED
      BY <2>1, <2>3, <2>4 DEF NInv, Nests, OneRequest
  <1>2. LInv /\ NInv /\ [Next]_vars => NInv'
    <2> SUFFICES ASSUME LInv, NInv, [Next]_vars PROVE NInv'
      OBVIOUS
    <2>1. NGoal
      BY NextNests
    <2>2. None \notin signedIn'
      BY NextSignedIn DEF NInv
    <2> QED
      BY <2>1, <2>2 DEF NInv, NGoal
  <1> QED
    BY <1>1, <1>2, ListingsCohere, PTL DEF Spec

(* What is chosen was listed where it is shown, and the entries are the     *)
(* pages of the folder in the path, in order, none missing and none twice,  *)
(* however requests overlap (the stages of AzureBrowser, applyItems).       *)
THEOREM ListsAreNested == ActsOnWhatIsShown => (Spec => []ListsNest)
  <1> SUFFICES ASSUME ActsOnWhatIsShown PROVE Spec => []ListsNest
    OBVIOUS
  <1>1. NInv => ListsNest
    <2> SUFFICES ASSUME NInv PROVE ListsNest
      OBVIOUS
    <2> DEFINE place == PlaceOf(state, resources)
    <2>1. Nest(state) /\ Shows(state, resources)
      BY DEF NInv, Nests
    <2>2. \A i \in DOMAIN state.entries :
             /\ state.entries[i].n = i /\ state.entries[i].of = place
             /\ state.path = Path(resources.container, resources.folder)
      <3>1. PICK S : state.entries \in Seq(S)
        BY <2>1 DEF Shows
      <3>2. \A i \in DOMAIN state.entries : state.entries # <<>>
        BY <3>1
      <3> QED
        BY <2>1, <3>2 DEF Shows
    <2>3. \A i \in DOMAIN state.entries : 1 \in DOMAIN state.entries
      BY <2>1 DEF Shows
    <2>4. state.mode = "authenticated" => Here = place
      BY DEF Here, PlaceOf
    <2>5. place.container = resources.container /\ place.folder = resources.folder
      BY DEF PlaceOf, PublicPlace, Nowhere
    <2>6. state.mode = "authenticated" =>
            /\ state.tenant \in OrNone(state.tenants.names)
            /\ state.sub \in OrNone(state.subs.names)
            /\ state.store \in OrNone(state.stores.names)
            /\ state.subs.names # {} => state.subs.of.tenant = state.tenant
            /\ state.stores.names # {} =>
                  state.stores.of.tenant = state.tenant /\ state.stores.of.sub = state.sub
      BY <2>1 DEF Nest, Nowhere
    <2> HIDE DEF place
    <2> QED
      BY <2>2, <2>3, <2>4, <2>5, <2>6 DEF ListsNest
  <1> QED
    BY <1>1, PlacesNest, PTL

-----------------------------------------------------------------------------
(* Signed out stays signed out.                                            *)

\* As Disconnect leaves the browser, with nothing under way.
Out == /\ needsConnect /\ state.identity = None /\ account = None
       /\ \A t \in Slots : ~chains[t].cur

OutGoal == state'.identity = None /\ account' = None

LEMMA EmptyIdentity ==
    /\ Closed.identity = None /\ SignedOut.identity = None
    /\ IsView(Closed) /\ IsView(SignedOut)
  BY SignedOutIsView DEF Closed, SignedOut

LEMMA RediscoverOut ==
    ASSUME NEW s, NEW pinned, NEW marks, Rediscover(s, pinned, marks)
    PROVE  OutGoal
  BY DEF Rediscover, Closed, OutGoal

LEMMA LoadOut ==
    ASSUME account = None, NEW s, NEW c, NEW kept, NEW pending, NEW shown, NEW held,
           IsView(shown), shown.identity = None, Load(s, c, kept, pending, shown, held)
    PROVE  OutGoal
  <1>1. CASE Rediscover(s, account, c.marks)
    BY <1>1, RediscoverOut
  <1>2. CASE /\ state' = [shown EXCEPT !.open = TRUE, !.phase = "loading", !.error = "none"]
             /\ UNCHANGED account
    BY <1>2, ViewFields DEF IsView, OutGoal
  <1> QED
    BY <1>1, <1>2 DEF Load

LEMMA StagesOut ==
    ASSUME account = None, IsView(state), state.identity = None, NEW s, NEW asks, NEW kept,
           NEW pending
    PROVE  /\ \A pinned, shown, held : IsView(shown) /\ shown.identity = None =>
                 (Discover(s, asks, pinned, kept, pending, shown, held) => OutGoal)
           /\ \A tenant, marks :
                 SelectTenant(s, tenant, asks, marks, kept, pending, state) => OutGoal
           /\ \A sub, marks :
                 SelectSubscription(s, sub, asks, marks, kept, pending, state) => OutGoal
           /\ \A store : SelectAccount(s, store, asks, kept, pending) => OutGoal
           /\ \A container, folder, more :
                 LoadLocation(s, container, folder, more, asks, kept, pending) => OutGoal
  <1>1. ASSUME NEW pinned, NEW shown, NEW held, IsView(shown), shown.identity = None,
               Discover(s, asks, pinned, kept, pending, shown, held)
        PROVE  OutGoal
    BY <1>1, LoadOut DEF Discover
  <1>2. ASSUME NEW tenant, NEW marks,
               SelectTenant(s, tenant, asks, marks, kept, pending, state)
        PROVE  OutGoal
    <2> DEFINE v == [state EXCEPT !.tenant = tenant, !.subs = NoList, !.sub = None,
                         !.stores = NoList, !.store = None, !.path = <<>>, !.entries = <<>>]
    <2>1. IsView(v) /\ v.identity = None
      BY ViewFields DEF IsView
    <2> QED
      BY <1>2, <2>1, LoadOut DEF SelectTenant
  <1>3. ASSUME NEW sub, NEW marks,
               SelectSubscription(s, sub, asks, marks, kept, pending, state)
        PROVE  OutGoal
    <2> DEFINE v == [state EXCEPT !.sub = sub, !.stores = NoList, !.store = None,
                         !.path = <<>>, !.entries = <<>>]
    <2>1. IsView(v) /\ v.identity = None
      BY ViewFields DEF IsView
    <2> QED
      BY <1>3, <2>1, LoadOut DEF SelectSubscription
  <1>4. ASSUME NEW store, SelectAccount(s, store, asks, kept, pending)
        PROVE  OutGoal
    <2> DEFINE v == [state EXCEPT !.store = store, !.path = <<>>, !.entries = <<>>,
                         !.picked = None]
    <2>1. IsView(v) /\ v.identity = None
      BY ViewFields DEF IsView
    <2> QED
      BY <1>4, <2>1, LoadOut DEF SelectAccount
  <1>5. ASSUME NEW container, NEW folder, NEW more,
               LoadLocation(s, container, folder, more, asks, kept, pending)
        PROVE  OutGoal
    <2> DEFINE u == [state EXCEPT !.path = Path(container, folder)]
               v == IF more # 0 THEN u ELSE [u EXCEPT !.entries = <<>>, !.picked = None]
    <2>1. IsView(u) /\ u.identity = None
      BY ViewFields DEF IsView
    <2>2. IsView(v) /\ v.identity = None
      BY <2>1, ViewFields DEF IsView
    <2>3. \E c, h : Load(s, c, kept, pending, v, h)
      BY <1>5, Zenon DEF LoadLocation
    <2> QED
      BY <2>2, <2>3, LoadOut
  <1> QED
    BY <1>1, <1>2, <1>3, <1>4, <1>5

LEMMA SettleOut ==
    ASSUME Out, NEW s, Settle(s, state, resources)
    PROVE  OutGoal
  <1>1. CASE op.slot = s /\ op.changed
    <2>1. \E marked : Reconcile(s, state, marked, deferred)
      BY <1>1, Zenon DEF Settle
    <2> QED
      BY <2>1, RediscoverOut DEF Out, Reconcile
  <1>2. CASE ~(op.slot = s /\ op.changed)
    BY <1>2, Zenon DEF Settle, Out, OutGoal
  <1> QED
    BY <1>1, <1>2

LEMMA RefreshOut ==
    ASSUME LInv, Out, NEW s \in Slots, RefreshPublic(s) \/ RefreshResources(s)
    PROVE  OutGoal
  <1>1. IsView(state) /\ account = None /\ state.identity = None
    BY SameViews DEF Out
  <1>2. CASE RefreshPublic(s)
    <2>1. CASE LoadLocation(s, resources.container, resources.folder, 0, FALSE, NoOp, Inherited)
      BY <1>1, <2>1, StagesOut
    <2>2. CASE state' = Failed(state, "other") /\ UNCHANGED account
      BY <1>1, <2>2, ViewFields DEF IsView, Failed, OutGoal
    <2> QED
      BY <1>2, <2>1, <2>2 DEF RefreshPublic
  <1>3. CASE RefreshResources(s)
    BY <1>1, <1>3, EmptyIdentity DEF RefreshResources, OutGoal
  <1> QED
    BY <1>2, <1>3

LEMMA UserOut ==
    ASSUME LInv, Out, NEW s \in Slots, UserStep(s)
    PROVE  OutGoal
  <1>1. IsView(state) /\ account = None /\ state.identity = None
    BY SameViews DEF Out
  <1>2. CASE Open(s)
    <2>1. CASE RefreshPublic(s) \/ RefreshResources(s)
      BY <2>1, RefreshOut
    <2>2. CASE state' = SignedOut /\ account' = None
      BY <2>2, EmptyIdentity DEF OutGoal
    <2>3. CASE /\ UNCHANGED account
               /\ \/ state' = [state EXCEPT !.open = TRUE, !.phase = "error"]
                  \/ state' = [state EXCEPT !.open = TRUE, !.phase = "ready"]
                  \/ state' = [state EXCEPT !.open = TRUE, !.phase = "ready", !.error = "none"]
      BY <1>1, <2>3, ViewFields DEF IsView, OutGoal
    <2> QED
      BY <1>2, <2>1, <2>2, <2>3 DEF Open
  <1>3. CASE Connect(s)
    <2> DEFINE shown == IF state.mode = "public" THEN SignedOut ELSE state
    <2>1. IsView(shown) /\ shown.identity = None
      BY <1>1, EmptyIdentity
    <2>2. \E pinned, kept, held : Discover(s, TRUE, pinned, kept, FALSE, shown, held)
      BY <1>3, Zenon DEF Connect
    <2> HIDE DEF shown
    <2> QED
      BY <1>1, <2>1, <2>2, StagesOut
  <1>4. CASE OpenPublic(s)
    <2>1. account' = None
      BY <1>4 DEF OpenPublic, Forget
    <2>2. state'.identity = None
      BY <1>4, OpenPublicHolds DEF PublicChoice, Closed, Failed
    <2> QED
      BY <2>1, <2>2 DEF OutGoal
  <1>5. CASE Refresh(s)
    BY <1>5, RefreshOut DEF Refresh
  <1>6. CASE Retry(s)
    <2>1. \/ \E c, f, m, a, k, p : LoadLocation(s, c, f, m, a, k, p)
          \/ UNCHANGED view
          \/ \E a, k, p, h : Discover(s, a, account, k, p, state, h)
          \/ \E t, a, m, k, p : SelectTenant(s, t, a, m, k, p, state)
          \/ \E u, a, m, k, p : SelectSubscription(s, u, a, m, k, p, state)
          \/ \E t, a, k, p : SelectAccount(s, t, a, k, p)
      BY <1>6, Zenon DEF Retry
    <2>2. CASE UNCHANGED view
      BY <1>1, <2>2 DEF view, OutGoal
    <2> QED
      BY <1>1, <2>1, <2>2, StagesOut
  <1>7. CASE NavigateUp(s)
    BY <1>1, <1>7, StagesOut DEF NavigateUp
  <1>8. CASE LoadMore(s)
    <2>1. \/ \E c, f, m, a, k, p : LoadLocation(s, c, f, m, a, k, p)
          \/ \E c, k, p, h : Load(s, c, k, p, state, h)
          \/ state' = Failed(state, "other") /\ UNCHANGED account
      BY <1>8, Zenon DEF LoadMore
    <2>2. CASE state' = Failed(state, "other") /\ UNCHANGED account
      BY <1>1, <2>2, ViewFields DEF IsView, Failed, OutGoal
    <2> QED
      BY <1>1, <2>1, <2>2, StagesOut, LoadOut
  <1>9. CASE \/ \E tenant \in Tenants : ChooseTenant(s, tenant)
             \/ \E sub \in Subscriptions : ChooseSubscription(s, sub)
             \/ \E store \in Stores : ChooseAccount(s, store)
    BY <1>1, <1>9, StagesOut DEF ChooseTenant, ChooseSubscription, ChooseAccount
  <1>10. CASE \E page \in resources.registry, container \in Containers,
                 folder \in OrNone(Folders) : OpenFolder(s, page, container, folder)
    <2>1. \/ \E c, f, m, a, k, p : LoadLocation(s, c, f, m, a, k, p)
          \/ state' = Failed(state, "other") /\ UNCHANGED account
      BY <1>10, Zenon DEF OpenFolder
    <2>2. CASE state' = Failed(state, "other") /\ UNCHANGED account
      BY <1>1, <2>2, ViewFields DEF IsView, Failed, OutGoal
    <2> QED
      BY <1>1, <2>1, <2>2, StagesOut
  <1> QED
    BY <1>2, <1>3, <1>4, <1>5, <1>6, <1>7, <1>8, <1>9, <1>10 DEF UserStep

LEMMA InstantOut ==
    ASSUME LInv, Out, Instant
    PROVE  OutGoal
  <1>1. IsView(state) /\ account = None /\ state.identity = None
    BY SameViews DEF Out
  <1>2. CASE Disconnect \/ BrowseLocal
    BY <1>2, EmptyIdentity DEF Disconnect, BrowseLocal, Forget, OutGoal
  <1>3. CASE Close
    BY <1>1, <1>3, EmptyIdentity, ViewFields DEF Close, IsView, OutGoal
  <1>4. CASE StaleClick \/ CacheExpires
    BY <1>1, <1>4, ViewFields DEF StaleClick, CacheExpires, IsView, Failed, OutGoal
  <1>5. CASE \E page \in resources.registry : OpenFile(page)
    BY <1>1, <1>5, ViewFields DEF OpenFile, IsView, OutGoal
  <1> QED
    BY <1>2, <1>3, <1>4, <1>5 DEF Instant

\* An answer to a chain that was overtaken.
LEMMA AnswerOut ==
    ASSUME LInv, Out, NEW s \in Slots, Answer(s) \/ Prompt(s) \/ ProviderEvent(s)
    PROVE  OutGoal
  <1>1. ~IsCurrent(s) /\ account = None /\ state.identity = None /\ needsConnect
    BY DEF Out, IsCurrent
  <1>2. CASE Settle(s, state, resources)
    BY <1>2, SettleOut
  <1>3. CASE UNCHANGED view
    BY <1>1, <1>3 DEF view, OutGoal
  <1>4. ~SilentSession(s) /\ ~NoSilentSession(s) /\ ~StageFailed(s)
    BY <1>1 DEF SilentSession, NoSilentSession, StageFailed
  <1>5. ~DiscoverListed(s) /\ ~TenantListed(s) /\ ~SubscriptionListed(s) /\ ~PageListed(s)
    BY <1>1 DEF DiscoverListed, TenantListed, SubscriptionListed, PageListed, Listed
  <1>6. Dropped(s) \/ Prompt(s) => Settle(s, state, resources)
    BY <1>1 DEF Dropped, Prompt, PromptGranted, PromptRejected
  <1>7. Proved(s) \/ Reconciled(s) \/ ProviderEvent(s) => UNCHANGED view
    BY <1>1, Zenon DEF Proved, Reconciled, ProviderEvent
  <1> QED
    BY <1>2, <1>3, <1>4, <1>5, <1>6, <1>7 DEF Answer

LEMMA NextOut ==
    ASSUME LInv, Out, [Next]_vars
    PROVE  OutGoal
  <1>1. CASE UNCHANGED << state, account >>
    BY <1>1 DEF Out, OutGoal
  <1>2. ASSUME NEW a \in Accounts, SessionsChange(a) PROVE OutGoal
    BY <1>1, <1>2 DEF SessionsChange, view
  <1> QED
    BY <1>1, <1>2, UserOut, InstantOut, AnswerOut DEF Next, vars, view

(* Signed out with nothing under way, no late answer, settled promise,      *)
(* stale click or event of the provider brings an account back, for any     *)
(* hierarchy, reopenings included (disconnect, signedOut,                   *)
(* authenticationChanged, runInteractive).                                  *)
THEOREM NoAccountComesBack == Spec => [][Out => OutGoal]_vars
  <1>1. LInv /\ [Next]_vars => [Out => OutGoal]_vars
    BY NextOut
  <1> QED
    BY <1>1, ListingsCohere, PTL DEF Spec

(* And while the user acts on what the browser shows, no list of one either. *)
THEOREM SignedOutStaysOut == ActsOnWhatIsShown => (Spec => DisconnectHolds)
  <1> SUFFICES ASSUME ActsOnWhatIsShown PROVE Spec => DisconnectHolds
    OBVIOUS
  <1>1. LInv /\ NInv /\ NInv' /\ [Next]_vars =>
          [(/\ needsConnect /\ state.identity = None /\ account = None
            /\ \A s \in Slots : ~chains[s].cur)
           => /\ state'.identity = None /\ account' = None
              /\ \A list \in {state'.tenants, state'.subs, state'.stores} : list = NoList
          ]_vars
    <2> SUFFICES ASSUME LInv, NInv', [Next]_vars, Out
                 PROVE  /\ state'.identity = None /\ account' = None
                        /\ \A list \in {state'.tenants, state'.subs, state'.stores} :
                              list = NoList
      BY DEF Out
    <2>1. OutGoal
      BY NextOut
    <2>2. Nest(state')
      BY DEF NInv, Nests
    <2> QED
      BY <2>1, <2>2 DEF OutGoal, Nest
  <1> QED
    BY <1>1, ListingsCohere, PlacesNest, PTL DEF Spec, DisconnectHolds

-----------------------------------------------------------------------------
(* Whose the lists are, and what becomes of a change of sessions.          *)

IdGoal ==
    /\ Honest(state', account', chains', signedIn', needsConnect', changes')
    /\ Accounted(state', account', chains', op', deferred', events', signedIn',
                 reconciling', changes')

Ground == LInv /\ NInv /\ IdHolds

-----------------------------------------------------------------------------
(* Views with the same lists, or fewer.                                    *)

Narrower(v, w) ==
    /\ w.mode = v.mode /\ w.identity = v.identity
    /\ w.tenants \in {v.tenants, NoList} /\ w.subs \in {v.subs, NoList}
    /\ w.stores \in {v.stores, NoList} /\ w.entries \in {v.entries, <<>>}

LEMMA NarrowerHeld ==
    ASSUME NEW v, NEW w, Narrower(v, w)
    PROVE  /\ \A acc : HeldBy(v, acc) => HeldBy(w, acc)
           /\ Bare(v) => Bare(w)
           /\ \A c, acc, in : Serves(c, v, acc, in) => Serves(c, w, acc, in)
  <1>1. Bare(v) => Bare(w)
    BY Places DEF Narrower, Bare
  <1>2. \A a : ListedBy(v, a) => ListedBy(w, a)
    <2>1. DOMAIN <<>> = {} /\ NoList.names = {}
      BY Places
    <2> QED
      BY <2>1 DEF Narrower, ListedBy
  <1>3. \A acc : HeldBy(v, acc) => HeldBy(w, acc)
    BY <1>1, <1>2 DEF Narrower, HeldBy
  <1>4. \A c, acc, in : Looks(c, v, acc, in) => Looks(c, w, acc, in)
    BY <1>1 DEF Looks
  <1>5. \A c, acc, in : Serves(c, v, acc, in) => Serves(c, w, acc, in)
    BY <1>4 DEF Narrower, Serves, Suits
  <1> QED
    BY <1>1, <1>3, <1>5

LEMMA LikeIsNarrower ==
    ASSUME NEW v, NEW w, LikeView(v, w) PROVE Narrower(v, w)
  BY DEF LikeView, Narrower

LEMMA EmptyIsBare ==
    /\ \A v : EmptyView(v) => Bare(v)
    /\ Bare(Closed) /\ Bare(SignedOut)
  <1>1. ASSUME NEW v, EmptyView(v) PROVE Bare(v)
    BY <1>1, Places DEF EmptyView, Bare
  <1> QED
    BY <1>1, EmptyViews

\* What is listed has its account, and the browser is not signed out.
LEMMA ActiveFacts ==
    ASSUME Ground, state.mode = "authenticated", ~Bare(state)
    PROVE  account # None /\ state.identity = account /\ ~needsConnect
  BY DEF Ground, IdHolds, Honest, HeldBy, Idles

\* A request under way, or a failure on display, of a signed out browser.
LEMMA BusyFacts ==
    ASSUME Ground, NEW s \in Slots, state.mode = "authenticated",
           Stops(chains[s]) \/ state.phase \notin {"closed", "signedOut"}
    PROVE  needsConnect =>
              account = None /\ state.identity = None /\ changes # 0 /\ signedIn = {}
  BY DEF Ground, IdHolds, Honest, Idles

LEMMA ModeFacts ==
    ASSUME Ground
    PROVE  state.mode \in {"authenticated", "public"} /\ None \notin signedIn
  BY DEF Ground, NInv, Nests, Nest

-----------------------------------------------------------------------------
(* The chains after a step.                                                *)

LEMMA OvertakenFacts ==
    ASSUME LInv
    PROVE  \A t \in Slots :
              /\ Superseded[t].cur = FALSE /\ Superseded[t].stage = chains[t].stage
              /\ Superseded[t].at = chains[t].at /\ Superseded[t].who = chains[t].who
              /\ Superseded[t].live = chains[t].live
              /\ Ended[t].cur = FALSE /\ Ended[t].stage = chains[t].stage
              /\ Ended[t].at = chains[t].at /\ Ended[t].who = chains[t].who
              /\ Ended[t].live = FALSE
  <1>1. \A t \in Slots : IsChain(chains[t])
    BY SameViews DEF AreChains
  <1> QED
    BY <1>1, ChainFields DEF Superseded, Ended, IsChain

\* One chain is new.
LEMMA OneNew ==
    ASSUME LInv, NEW s \in Slots, NEW d, NEW cs \in {chains, Superseded, Ended},
           chains' = [cs EXCEPT ![s] = d]
    PROVE  chains'[s] = d /\ \A t \in Slots \ {s} : chains'[t] = cs[t]
  <1>1. AreChains(cs)
    BY SameViews, SupersededChains, EndedChains
  <1> QED
    BY <1>1 DEF AreChains

\* An overtaken chain writes nothing, and a late proof is still one.
LEMMA OvertakenHonest ==
    ASSUME Ground, NEW t \in Slots, NEW cs \in {Superseded, Ended}
    PROVE  /\ ~Stops(cs[t])
           /\ \A v, acc, in : Serves(cs[t], v, acc, in)
           /\ \A v, acc, n : Proves(cs[t], v, acc, signedIn, n)
  <1>1. cs[t].cur = FALSE /\ cs[t].stage = chains[t].stage /\ cs[t].at = chains[t].at
        /\ cs[t].who = chains[t].who
    BY OvertakenFacts DEF Ground
  <1>2. Proves(chains[t], state, account, signedIn, needsConnect)
    BY DEF Ground, IdHolds, Honest
  <1> QED
    BY <1>1, <1>2 DEF Stops, Serves, Proves

LEMMA IdleHonest ==
    /\ ~Stops(IdleChain) /\ ~Waits(IdleChain)
    /\ \A v, acc, in : Serves(IdleChain, v, acc, in)
    /\ \A v, acc, in, n : Proves(IdleChain, v, acc, in, n)
  <1>1. IdleChain.cur = FALSE /\ IdleChain.stage = "idle"
    BY DEF IdleChain
  <1> QED
    BY <1>1 DEF Stops, Waits, Serves, Proves

-----------------------------------------------------------------------------
(* The ways a step leaves the account, the chains and the change owed.     *)

\* Every chain but one is overtaken by a new request.
LEMMA NewHonest ==
    ASSUME Ground, NEW s \in Slots, NEW d, d.stage # "reconcile", NEW n, NEW k,
           NEW cs \in {Superseded, Ended}, chains' = [cs EXCEPT ![s] = d],
           HeldBy(state', account'), Serves(d, state', account', signedIn),
           Idles(state', account', chains', signedIn, n, k)
    PROVE  Honest(state', account', chains', signedIn, n, k)
  <1>1. chains'[s] = d /\ \A t \in Slots \ {s} : chains'[t] = cs[t]
    BY OneNew DEF Ground
  <1>2. \A t \in Slots : Serves(chains'[t], state', account', signedIn)
    BY <1>1, OvertakenHonest
  <1>3. Proves(d, state', account', signedIn, n)
    BY DEF Proves
  <1>4. \A t \in Slots : Proves(chains'[t], state', account', signedIn, n)
    BY <1>1, <1>3, OvertakenHonest
  <1> QED
    BY <1>2, <1>4 DEF Honest

\* Its operation holds what the superseded one left, or it waits.
Keeps(s, asks, kept, pending) ==
    /\ kept.changed \in BOOLEAN
    /\ kept.changed \/ pending <=> op.changed \/ deferred
    /\ ~(kept.changed /\ pending)
    /\ kept.slot # None \/ kept.changed => kept.slot = s /\ asks
    /\ kept.slot = None /\ ~kept.changed => kept = NoOp

LEMMA NewAccounted ==
    ASSUME Ground, NEW s \in Slots, NEW d, Stops(d), ~Waits(chains[s]),
           chains' = [Superseded EXCEPT ![s] = d], state'.open,
           Keeps(s, d.asks, op', deferred'), account' = account,
           state'.identity \in {state.identity, account}
    PROVE  Accounted(state', account', chains', op', deferred', events, signedIn,
                     reconciling, changes)
  <1>1. chains'[s] = d /\ \A t \in Slots \ {s} : chains'[t] = Superseded[t]
    BY OneNew DEF Ground
  <1>2. ~Waits(d) /\ d.stage # "reconcile"
    BY DEF Stops, Waits
  <1>3. \A t \in Slots : Waits(chains'[t]) <=> Waits(chains[t])
    BY <1>1, <1>2, OvertakenFacts DEF Ground, Waits
  <1>4. NoneWaits(chains') <=> NoneWaits(chains)
    BY <1>3 DEF NoneWaits
  <1>5. /\ OnceOwed(chains, op, deferred, events)
        /\ \A t \in Slots : Waits(chains[t]) => reconciling /\ state.open
        /\ {account, state.identity} \subseteq OrNone(signedIn)
              \/ Owing(chains, op, deferred, events)
        /\ changes = 0 => Calm(chains, op, deferred, events)
    BY DEF Ground, IdHolds, Accounted
  <1>6. OnceOwed(chains', op', deferred', events)
    BY <1>3, <1>4, <1>5 DEF OnceOwed, Keeps
  <1>7. Owned(chains', op')
    BY <1>1 DEF Owned, Keeps
  <1>8. {account', state'.identity} \subseteq OrNone(signedIn)
           \/ Owing(chains', op', deferred', events)
    BY <1>4, <1>5 DEF Owing, Keeps
  <1>9. changes = 0 => Calm(chains', op', deferred', events)
    <2> SUFFICES ASSUME changes = 0 PROVE Calm(chains', op', deferred', events)
      OBVIOUS
    <2>1. Calm(chains, op, deferred, events)
      BY <1>5
    <2>2. \A t \in Slots : Superseded[t].stage # "reconcile"
      BY <2>1, OvertakenFacts DEF Ground, Calm
    <2>3. \A t \in Slots : chains'[t].stage # "reconcile"
      BY <1>1, <1>2, <2>2
    <2> QED
      BY <2>1, <2>3 DEF Calm, Keeps
  <1> QED
    BY <1>3, <1>5, <1>6, <1>7, <1>8, <1>9 DEF Accounted

\* The account is forgotten and looked for again.
LEMMA RediscoverId ==
    ASSUME Ground, NEW s \in Slots, NEW pinned, NEW marks, Rediscover(s, pinned, marks),
           changes' = changes, signedIn' = signedIn, events' \in {0, events},
           needsConnect' => changes # 0 /\ signedIn = {},
           \A t \in Slots \ {s} : Waits(chains[t]) => reconciling'
    PROVE  IdGoal
  <1> DEFINE c == [IdleChain EXCEPT !.stage = "discover", !.at = "session", !.cur = TRUE,
                            !.marks = marks, !.who = pinned]
             v == [Closed EXCEPT !.open = TRUE, !.phase = "loading"]
  <1>1. /\ chains' = [Superseded EXCEPT ![s] = c] /\ state' = v
        /\ account' = None /\ op' = NoOp /\ deferred' = FALSE
    BY DEF Rediscover
  <1>2. c.stage = "discover" /\ c.at = "session" /\ c.who = pinned
    BY DEF IdleChain
  <1>3. Bare(v) /\ v.open /\ v.mode = "authenticated" /\ v.identity = None
    BY Places DEF Bare, Closed
  <1>4. NoOp.slot = None /\ NoOp.changed = FALSE
    BY DEF NoOp
  <1> HIDE DEF c, v
  <1>5. Serves(c, v, None, signedIn)
    BY <1>2, <1>3, ModeFacts DEF Serves, Suits, Looks, PageStages
  <1>6. HeldBy(v, None)
    BY <1>3 DEF HeldBy
  <1>7. Idles(v, None, chains', signedIn, needsConnect', changes)
    BY <1>3 DEF Idles
  <1>8. Honest(state', account', chains', signedIn, needsConnect', changes)
    BY <1>1, <1>2, <1>5, <1>6, <1>7, NewHonest
  <1>9. chains'[s] = c /\ \A t \in Slots \ {s} : chains'[t] = Superseded[t]
    BY <1>1, OneNew DEF Ground
  <1>10. /\ ~Waits(chains'[s])
         /\ \A t \in Slots \ {s} : Waits(chains'[t]) <=> Waits(chains[t])
    BY <1>2, <1>9, OvertakenFacts DEF Ground, Waits
  <1>11. OnceOwed(chains, op, deferred, events)
         /\ (changes = 0 => Calm(chains, op, deferred, events))
    BY DEF Ground, IdHolds, Accounted
  <1>12. OnceOwed(chains', op', deferred', events')
    BY <1>1, <1>4, <1>10, <1>11 DEF OnceOwed, NoneWaits
  <1>13. changes = 0 => Calm(chains', op', deferred', events')
    <2> SUFFICES ASSUME changes = 0 PROVE Calm(chains', op', deferred', events')
      OBVIOUS
    <2>1. Calm(chains, op, deferred, events)
      BY <1>11
    <2>2. \A t \in Slots : chains'[t].stage # "reconcile"
      BY <1>2, <1>9, <2>1, OvertakenFacts DEF Ground, Calm
    <2> QED
      BY <1>1, <1>4, <2>1, <2>2 DEF Calm
  <1>14. Owned(chains', op')
    BY <1>1, <1>4 DEF Owned
  <1>15. {account', state'.identity} \subseteq OrNone(signedIn)
    BY <1>1, <1>3 DEF OrNone
  <1>16. \A t \in Slots : Waits(chains'[t]) => reconciling' /\ state'.open
    BY <1>1, <1>3, <1>10
  <1> QED
    BY <1>8, <1>12, <1>13, <1>14, <1>15, <1>16 DEF IdGoal, Accounted

\* A request of a stage, by a chain that is free or ends its stage.
LEMMA LoadId ==
    ASSUME Ground, NEW s \in Slots, NEW c, NEW kept, NEW pending, NEW shown, NEW held,
           Load(s, c, kept, pending, shown, held), IsView(shown), IsChain(c),
           c.stage # "reconcile", ~Waits(chains[s]),
           HeldBy(shown, account), Suits(c, shown, account, signedIn),
           Keeps(s, c.asks, kept, pending), shown.identity \in {state.identity, account},
           needsConnect' =>
              /\ account = None /\ shown.identity = None
              /\ shown.mode = "authenticated" => changes # 0 /\ signedIn = {},
           UNCHANGED << reconciling, provider >>
    PROVE  IdGoal
  <1>0. changes' = changes /\ signedIn' = signedIn /\ events' = events
        /\ reconciling' = reconciling
    BY DEF provider
  <1>1. CASE pending /\ kept = NoOp /\ shown.mode = "authenticated"
    <2>1. Rediscover(s, account, c.marks)
      BY <1>1 DEF Load
    <2>2. \A t \in Slots \ {s} : Waits(chains[t]) => reconciling'
      BY <1>0 DEF Ground, IdHolds, Accounted
    <2> QED
      BY <1>0, <1>1, <2>1, <2>2, RediscoverId
  <1>2. CASE ~(pending /\ kept = NoOp /\ shown.mode = "authenticated")
    <2> DEFINE d == [c EXCEPT !.cur = TRUE]
               v == Loading(shown)
    <2>1. /\ state' = v /\ chains' = [Superseded EXCEPT ![s] = d]
          /\ op' = kept /\ deferred' = pending /\ account' = account
      BY <1>2 DEF Load, Loading
    <2>2. d.stage = c.stage /\ d.at = c.at /\ d.who = c.who /\ d.asks = c.asks /\ d.cur = TRUE
      BY ChainFields DEF IsChain
    <2>3. Narrower(shown, v) /\ v.open
      BY ViewFields DEF IsView, Narrower, Loading
    <2> HIDE DEF d, v
    <2>4. Serves(d, shown, account, signedIn)
      BY <2>2 DEF Serves, Suits, Looks
    <2>5. HeldBy(v, account) /\ Serves(d, v, account, signedIn)
      BY <2>3, <2>4, NarrowerHeld
    <2>6. Idles(v, account, chains', signedIn, needsConnect', changes)
      BY <2>3 DEF Idles, Narrower
    <2>7. Honest(state', account', chains', signedIn, needsConnect', changes)
      BY <2>1, <2>2, <2>5, <2>6, NewHonest
    <2>8. Stops(d)
      BY <2>2 DEF Stops
    <2>9. Accounted(state', account', chains', op', deferred', events, signedIn,
                    reconciling, changes)
      BY <2>1, <2>2, <2>3, <2>8, NewAccounted DEF Narrower
    <2> QED
      BY <1>0, <2>7, <2>9 DEF IdGoal
  <1> QED
    BY <1>1, <1>2

\* The account in use has to be proved: nothing is overtaken.
LEMMA ReconcileId ==
    ASSUME Ground, NEW s \in Slots, NEW shown, NEW held, NEW pending,
           Reconcile(s, shown, held, pending), ~pending, HeldBy(shown, account),
           \A t \in Slots \ {s} : Serves(chains[t], shown, account, signedIn),
           shown.open, shown.identity \in {state.identity, account}, NoneWaits(chains),
           changes # 0, needsConnect => signedIn = {}, events' = 0,
           UNCHANGED << needsConnect, signedIn, changes >>
    PROVE  IdGoal
  <1>1. CASE account = None
    <2>1. Rediscover(s, None, FALSE)
      BY <1>1 DEF Reconcile
    <2>2. \A t \in Slots \ {s} : Waits(chains[t]) => reconciling'
      BY DEF NoneWaits
    <2> QED
      BY <2>1, <2>2, RediscoverId
  <1>2. CASE account # None
    <2> DEFINE d == [IdleChain EXCEPT !.stage = "reconcile", !.at = "session",
                        !.cur = TRUE, !.live = TRUE, !.who = account]
    <2>1. d.stage = "reconcile" /\ d.at = "session" /\ d.cur /\ d.live /\ d.who = account
      BY DEF IdleChain
    <2>2. /\ chains' = [chains EXCEPT ![s] = d] /\ state' = shown /\ account' = account
          /\ op' = NoOp /\ deferred' = pending /\ reconciling' = TRUE
      BY <1>2 DEF Reconcile
    <2> HIDE DEF d
    <2>3. chains'[s] = d /\ \A t \in Slots \ {s} : chains'[t] = chains[t]
      BY <2>2, OneNew DEF Ground
    <2>4. \A t \in Slots : Proves(chains[t], state, account, signedIn, needsConnect)
      BY DEF Ground, IdHolds, Honest
    <2>5. ~needsConnect
      BY <1>2 DEF Ground, IdHolds, Honest, Idles
    <2>6. \A t \in Slots : Serves(chains'[t], state', account', signedIn')
      <3>1. Serves(d, shown, account, signedIn)
        BY <2>1 DEF Serves, Suits, PageStages
      <3> QED
        BY <2>2, <2>3, <3>1
    <2>7. \A t \in Slots : Proves(chains'[t], state', account', signedIn', needsConnect')
      <3>1. Proves(d, shown, account, signedIn, needsConnect)
        BY <1>2, <2>1 DEF Proves
      <3>2. \A t \in Slots : Proves(chains[t], shown, account, signedIn, needsConnect)
        BY <2>4 DEF Proves
      <3> QED
        BY <2>2, <2>3, <3>1, <3>2
    <2>8. Honest(state', account', chains', signedIn', needsConnect', changes')
      BY <2>2, <2>5, <2>6, <2>7 DEF Honest, Idles
    <2>9. \A t \in Slots : Waits(chains'[t]) <=> t = s
      BY <2>1, <2>3 DEF NoneWaits, Waits
    <2>10. NoOp.slot = None /\ NoOp.changed = FALSE
      BY DEF NoOp
    <2>11. OnceOwed(chains', op', deferred', events') /\ Owned(chains', op')
      BY <2>2, <2>9, <2>10 DEF OnceOwed, Owned
    <2>12. Owing(chains', op', deferred', events')
      BY <2>9 DEF Owing, NoneWaits
    <2> QED
      BY <2>2, <2>8, <2>9, <2>11, <2>12 DEF IdGoal, Accounted
  <1> QED
    BY <1>1, <1>2

\* A chain ends, and the view may change.
LEMMA IdleId ==
    ASSUME Ground, NEW s \in Slots, NEW shown,
           chains' = [chains EXCEPT ![s] = IdleChain], state' = shown,
           HeldBy(shown, account), state.open => shown.open,
           \A t \in Slots \ {s} : Serves(chains[t], shown, account, signedIn),
           shown.identity \in {state.identity, account}, ~Waits(chains[s]),
           needsConnect =>
              /\ shown.identity = None
              /\ shown.mode = "authenticated" =>
                    \/ changes # 0 /\ signedIn = {}
                    \/ /\ shown.phase \in {"closed", "signedOut"}
                       /\ \A t \in Slots \ {s} : ~Stops(chains[t]),
           op' = IF op.slot = s THEN NoOp ELSE op, ~(op.slot = s /\ op.changed),
           UNCHANGED << account, deferred, reconciling, needsConnect, provider >>
    PROVE  IdGoal
  <1>0. changes' = changes /\ signedIn' = signedIn /\ events' = events
    BY DEF provider
  <1>1. chains'[s] = IdleChain /\ \A t \in Slots \ {s} : chains'[t] = chains[t]
    BY OneNew DEF Ground
  <1>2. \A t \in Slots : Serves(chains'[t], shown, account, signedIn)
    BY <1>1, IdleHonest
  <1>3. \A t \in Slots : Proves(chains'[t], shown, account, signedIn, needsConnect)
    <2>1. \A t \in Slots : Proves(chains[t], state, account, signedIn, needsConnect)
      BY DEF Ground, IdHolds, Honest
    <2>2. \A t \in Slots : Proves(chains[t], shown, account, signedIn, needsConnect)
      BY <2>1 DEF Proves
    <2> QED
      BY <1>1, <2>2, IdleHonest
  <1>4. \A t \in Slots : Stops(chains'[t]) => t # s /\ Stops(chains[t])
    BY <1>1, IdleHonest
  <1>5. Idles(shown, account, chains', signedIn, needsConnect, changes)
    <2>1. needsConnect => account = None
      BY DEF Ground, IdHolds, Honest, Idles
    <2> QED
      BY <1>4, <2>1 DEF Idles
  <1>6. \A t \in Slots : Waits(chains'[t]) <=> Waits(chains[t])
    BY <1>1, IdleHonest
  <1>7. /\ OnceOwed(chains, op, deferred, events) /\ Owned(chains, op)
        /\ \A t \in Slots : Waits(chains[t]) => reconciling /\ state.open
        /\ {account, state.identity} \subseteq OrNone(signedIn)
              \/ Owing(chains, op, deferred, events)
        /\ changes = 0 => Calm(chains, op, deferred, events)
    BY DEF Ground, IdHolds, Accounted
  <1>8. NoOp.slot = None /\ NoOp.changed = FALSE
    BY DEF NoOp
  <1>9. op'.changed = op.changed
    BY <1>7, <1>8 DEF OnceOwed
  <1>10. OnceOwed(chains', op', deferred', events')
    BY <1>0, <1>6, <1>7, <1>9 DEF OnceOwed, NoneWaits
  <1>11. Owned(chains', op')
    BY <1>1, <1>7, <1>8 DEF Owned
  <1>12. {account, shown.identity} \subseteq OrNone(signedIn)
            \/ Owing(chains', op', deferred', events')
    BY <1>0, <1>6, <1>7, <1>9 DEF Owing, NoneWaits
  <1>13. changes = 0 => Calm(chains', op', deferred', events')
    <2>1. IdleChain.stage # "reconcile"
      BY DEF IdleChain
    <2>2. changes = 0 => \A t \in Slots : chains'[t].stage # "reconcile"
      BY <1>1, <1>7, <2>1 DEF Calm
    <2> QED
      BY <1>0, <1>7, <1>9, <2>2 DEF Calm
  <1>14. \A t \in Slots : Waits(chains'[t]) => reconciling /\ shown.open
    BY <1>6, <1>7
  <1>15. Honest(shown, account, chains', signedIn, needsConnect, changes)
    BY <1>2, <1>3, <1>5 DEF Honest
  <1> QED
    BY <1>0, <1>10, <1>11, <1>12, <1>13, <1>14, <1>15 DEF IdGoal, Accounted

\* A chain settles: a change that waited for it is reconciled.
LEMMA SettleId ==
    ASSUME Ground, NEW s \in Slots, NEW shown, NEW held, Settle(s, shown, held),
           chains[s].stage # "reconcile",
           HeldBy(shown, account), state.open => shown.open,
           \A t \in Slots \ {s} : Serves(chains[t], shown, account, signedIn),
           shown.identity \in {state.identity, account},
           needsConnect =>
              /\ shown.identity = None
              /\ shown.mode = "authenticated" =>
                    \/ changes # 0 /\ signedIn = {}
                    \/ /\ shown.phase \in {"closed", "signedOut"}
                       /\ \A t \in Slots \ {s} : ~Stops(chains[t]),
           UNCHANGED provider
    PROVE  IdGoal
  <1> DEFINE marked == IF chains[s].marks /\ shown.phase = "ready"
                       THEN [held EXCEPT !.fresh = "fresh"] ELSE held
  <1>0. changes' = changes /\ signedIn' = signedIn /\ events' = events
    BY DEF provider
  <1>1. ~Waits(chains[s])
    BY DEF Waits
  <1>2. CASE op.slot = s /\ op.changed
    <2>1. Reconcile(s, shown, marked, deferred) /\ UNCHANGED needsConnect
      BY <1>2, Zenon DEF Settle
    <2> HIDE DEF marked
    <2>2. /\ OnceOwed(chains, op, deferred, events) /\ Owned(chains, op)
          /\ changes = 0 => Calm(chains, op, deferred, events)
      BY DEF Ground, IdHolds, Accounted
    <2>3. Stops(chains[s]) /\ NoneWaits(chains) /\ ~deferred /\ events = 0 /\ changes # 0
      BY <1>2, <2>2 DEF OnceOwed, Owned, Calm
    <2>4. state.open
      BY <2>3, OthersAside DEF Ground
    <2>5. state.mode = "authenticated"
      BY <1>2, ModeFacts DEF Ground, LInv, QInv, PublicApart, NoOp
    <2>6. needsConnect => signedIn = {}
      BY <2>3, <2>5, BusyFacts
    <2> QED
      BY <1>0, <2>1, <2>3, <2>4, <2>6, ReconcileId
  <1>3. CASE ~(op.slot = s /\ op.changed)
    <2>1. /\ state' = shown /\ chains' = [chains EXCEPT ![s] = IdleChain]
          /\ op' = IF op.slot = s THEN NoOp ELSE op
          /\ UNCHANGED << account, deferred, reconciling, needsConnect >>
      BY <1>3, Zenon DEF Settle
    <2> QED
      BY <1>1, <1>3, <2>1, IdleId
  <1> QED
    BY <1>2, <1>3

\* Beside a chain that may still write, every view suits the others.
LEMMA AloneServes ==
    ASSUME Ground, NEW s \in Slots, Stops(chains[s])
    PROVE  /\ \A t \in Slots \ {s} : ~Stops(chains[t])
           /\ \A t \in Slots \ {s} : \A v, acc, in : Serves(chains[t], v, acc, in)
  <1>1. \A t \in Slots \ {s} : ~Stops(chains[t])
    BY OthersAside DEF Ground
  <1> QED
    BY <1>1 DEF Stops, Serves, Suits, PageStages

\* A chain settles, leaving the view or telling of a failure.
LEMMA KeepsViewId ==
    ASSUME Ground, NEW s \in Slots, NEW held, chains[s].stage # "reconcile",
           \/ Settle(s, state, held)
           \/ Stops(chains[s]) /\ \E kind : Settle(s, Failed(state, kind), held),
           UNCHANGED provider
    PROVE  IdGoal
  <1>1. /\ HeldBy(state, account)
        /\ \A t \in Slots : Serves(chains[t], state, account, signedIn)
        /\ Idles(state, account, chains, signedIn, needsConnect, changes)
    BY DEF Ground, IdHolds, Honest
  <1>2. CASE Settle(s, state, held)
    <2>1. needsConnect =>
              /\ state.identity = None
              /\ state.mode = "authenticated" =>
                    \/ changes # 0 /\ signedIn = {}
                    \/ /\ state.phase \in {"closed", "signedOut"}
                       /\ \A t \in Slots \ {s} : ~Stops(chains[t])
      BY <1>1 DEF Idles
    <2> QED
      BY <1>1, <1>2, <2>1, SettleId
  <1>3. ASSUME NEW kind, Stops(chains[s]), Settle(s, Failed(state, kind), held)
        PROVE  IdGoal
    <2> DEFINE v == Failed(state, kind)
    <2>1. LikeView(state, v) /\ v.open
      BY SameViews, LikeViews, ViewFields DEF Ground, IsView, Failed
    <2>2. Settle(s, v, held)
      BY <1>3
    <2> HIDE DEF v
    <2>3. HeldBy(v, account)
      BY <1>1, <2>1, LikeIsNarrower, NarrowerHeld
    <2>4. \A t \in Slots \ {s} : Serves(chains[t], v, account, signedIn)
      BY <1>3, AloneServes
    <2>5. v.identity = state.identity /\ v.mode = state.mode
      BY <2>1 DEF LikeView
    <2>6. needsConnect =>
             /\ state.identity = None
             /\ state.mode = "authenticated" => changes # 0 /\ signedIn = {}
      BY <1>1, <1>3 DEF Idles
    <2> QED
      BY <2>1, <2>2, <2>3, <2>4, <2>5, <2>6, SettleId
  <1> QED
    BY <1>2, <1>3

\* Nobody could be found: signed out.
LEMMA NobodyFoundId ==
    ASSUME Ground, NEW s \in Slots, SettleSignedOut(s, chains), Stops(chains[s]),
           ~chains[s].asks, signedIn = {},
           UNCHANGED << op, deferred, reconciling, provider >>
    PROVE  IdGoal
  <1>0. changes' = changes /\ signedIn' = signedIn /\ events' = events
    BY DEF provider
  <1>1. /\ chains' = [chains EXCEPT ![s] = IdleChain] /\ state' = SignedOut
        /\ account' = None /\ needsConnect' = TRUE
    BY DEF SettleSignedOut
  <1>2. chains'[s] = IdleChain /\ \A t \in Slots \ {s} : chains'[t] = chains[t]
    BY <1>1, OneNew DEF Ground
  <1>3. SignedOut.open /\ SignedOut.phase = "signedOut" /\ SignedOut.identity = None
        /\ SignedOut.mode = "authenticated"
    BY DEF SignedOut, Closed
  <1>4. \A t \in Slots : ~Stops(chains'[t])
    BY <1>2, AloneServes, IdleHonest
  <1>5. \A t \in Slots : Serves(chains'[t], SignedOut, None, signedIn)
    BY <1>2, AloneServes, IdleHonest
  <1>6. \A t \in Slots : Proves(chains'[t], SignedOut, None, signedIn, TRUE)
    <2>1. \A t \in Slots : Proves(chains[t], state, account, signedIn, needsConnect)
      BY DEF Ground, IdHolds, Honest
    <2>2. \A t \in Slots : Proves(chains[t], SignedOut, None, signedIn, TRUE)
      BY <1>3, <2>1 DEF Proves
    <2> QED
      BY <1>2, <2>2, IdleHonest
  <1>7. HeldBy(SignedOut, None)
    BY <1>3, EmptyIsBare DEF HeldBy
  <1>8. Honest(state', account', chains', signedIn', needsConnect', changes')
    BY <1>0, <1>1, <1>3, <1>4, <1>5, <1>6, <1>7 DEF Honest, Idles
  <1>9. \A t \in Slots : Waits(chains'[t]) <=> Waits(chains[t])
    <2>1. ~Waits(chains[s])
      BY DEF Stops, Waits
    <2> QED
      BY <1>2, <2>1, IdleHonest
  <1>10. /\ OnceOwed(chains, op, deferred, events) /\ Owned(chains, op)
         /\ \A t \in Slots : Waits(chains[t]) => reconciling
         /\ changes = 0 => Calm(chains, op, deferred, events)
    BY DEF Ground, IdHolds, Accounted
  <1>11. OnceOwed(chains', op', deferred', events')
    BY <1>0, <1>9, <1>10 DEF OnceOwed, NoneWaits
  <1>12. Owned(chains', op')
    <2>1. op.slot = None /\ ~op.changed
      BY <1>10, AloneServes DEF Owned
    <2> QED
      BY <1>0, <1>10, <2>1 DEF Owned
  <1>13. changes = 0 => Calm(chains', op', deferred', events')
    <2>1. IdleChain.stage # "reconcile"
      BY DEF IdleChain
    <2>2. changes = 0 => \A t \in Slots : chains'[t].stage # "reconcile"
      BY <1>2, <1>10, <2>1 DEF Calm
    <2> QED
      BY <1>0, <1>10, <2>2 DEF Calm
  <1>14. {account', state'.identity} \subseteq OrNone(signedIn')
    BY <1>1, <1>3 DEF OrNone
  <1> QED
    BY <1>0, <1>1, <1>3, <1>8, <1>9, <1>10, <1>11, <1>12, <1>13, <1>14
       DEF IdGoal, Accounted

\* The account is forgotten, and every chain is overtaken.
LEMMA ForgottenId ==
    ASSUME Ground, NEW cs \in {Superseded, Ended}, chains' = cs, account' = None,
           state'.identity = None, Bare(state'),
           state'.mode = "authenticated" => state'.phase \in {"closed", "signedOut"},
           op' = NoOp, ~deferred', events' = events \/ events' = 0,
           cs = Ended \/ NoneWaits(chains), signedIn' = signedIn, changes' = changes
    PROVE  IdGoal
  <1>1. \A t \in Slots : /\ ~Stops(chains'[t]) /\ Serves(chains'[t], state', None, signedIn)
                         /\ Proves(chains'[t], state', None, signedIn, needsConnect')
    BY OvertakenHonest
  <1>2. HeldBy(state', None)
    BY DEF HeldBy
  <1>3. Honest(state', account', chains', signedIn', needsConnect', changes')
    BY <1>1, <1>2 DEF Honest, Idles
  <1>4. \A t \in Slots : ~Waits(chains'[t])
    <2>1. \A t \in Slots : ~Waits(Ended[t]) /\ (Waits(Superseded[t]) => Waits(chains[t]))
      BY OvertakenFacts DEF Ground, Waits
    <2> QED
      BY <2>1 DEF NoneWaits
  <1>5. NoOp.slot = None /\ NoOp.changed = FALSE
    BY DEF NoOp
  <1>6. OnceOwed(chains, op, deferred, events)
        /\ (changes = 0 => Calm(chains, op, deferred, events))
    BY DEF Ground, IdHolds, Accounted
  <1>7. OnceOwed(chains', op', deferred', events') /\ Owned(chains', op')
    BY <1>4, <1>5, <1>6 DEF OnceOwed, NoneWaits, Owned
  <1>8. changes = 0 => Calm(chains', op', deferred', events')
    <2> SUFFICES ASSUME changes = 0 PROVE Calm(chains', op', deferred', events')
      OBVIOUS
    <2>1. Calm(chains, op, deferred, events)
      BY <1>6
    <2>2. \A t \in Slots : chains'[t].stage # "reconcile"
      BY <2>1, OvertakenFacts DEF Ground, Calm
    <2> QED
      BY <1>5, <2>1, <2>2 DEF Calm
  <1>9. {account', state'.identity} \subseteq OrNone(signedIn')
    BY DEF OrNone
  <1> QED
    BY <1>3, <1>4, <1>7, <1>8, <1>9 DEF IdGoal, Accounted

\* The chains stay, and the view keeps its lists.
LEMMA StaysId ==
    ASSUME Ground, Narrower(state, state'), state.open => state'.open,
           needsConnect /\ state.mode = "authenticated" => state'.phase = state.phase,
           UNCHANGED << account, chains, auth, provider >>
    PROVE  IdGoal
  <1>1. /\ changes' = changes /\ signedIn' = signedIn /\ events' = events
        /\ op' = op /\ deferred' = deferred /\ reconciling' = reconciling
        /\ needsConnect' = needsConnect
    BY DEF provider, auth
  <1>2. /\ HeldBy(state, account)
        /\ \A t \in Slots : Serves(chains[t], state, account, signedIn)
        /\ \A t \in Slots : Proves(chains[t], state, account, signedIn, needsConnect)
        /\ Idles(state, account, chains, signedIn, needsConnect, changes)
    BY DEF Ground, IdHolds, Honest
  <1>3. HeldBy(state', account)
        /\ \A t \in Slots : Serves(chains[t], state', account, signedIn)
    BY <1>2, NarrowerHeld
  <1>4. \A t \in Slots : Proves(chains[t], state', account, signedIn, needsConnect)
    BY <1>2 DEF Proves
  <1>5. Idles(state', account, chains, signedIn, needsConnect, changes)
    BY <1>2 DEF Idles, Narrower
  <1>6. Accounted(state, account, chains, op, deferred, events, signedIn, reconciling, changes)
    BY DEF Ground, IdHolds
  <1>7. Accounted(state', account, chains, op, deferred, events, signedIn, reconciling,
                  changes)
    BY <1>6 DEF Accounted, Narrower
  <1> QED
    BY <1>1, <1>3, <1>4, <1>5, <1>7 DEF IdGoal, Honest

\* A browser without an account finds itself signed out: nothing is under way, but
\* perhaps a reconciliation.
LEMMA SignsOutId ==
    ASSUME Ground, state' = SignedOut, account' = None, needsConnect',
           ~state.open \/ (state.phase # "loading" /\ (needsConnect \/ account = None)),
           UNCHANGED << chains, op, deferred, reconciling, provider >>
    PROVE  IdGoal
  <1>1. changes' = changes /\ signedIn' = signedIn /\ events' = events
    BY DEF provider
  <1>2. SignedOut.open /\ SignedOut.phase = "signedOut" /\ SignedOut.identity = None
        /\ SignedOut.mode = "authenticated"
    BY DEF SignedOut, Closed
  <1>3. \A t \in Slots : ~Stops(chains[t])
    BY NoneStops DEF Ground
  <1>4. \A t \in Slots : Serves(chains[t], SignedOut, None, signedIn)
    BY <1>3 DEF Stops, Serves, Suits, PageStages
  <1>5. \A t \in Slots : Proves(chains[t], SignedOut, None, signedIn, TRUE)
    <2>1. /\ \A t \in Slots : Proves(chains[t], state, account, signedIn, needsConnect)
          /\ Idles(state, account, chains, signedIn, needsConnect, changes)
      BY DEF Ground, IdHolds, Honest
    <2>2. state.open => account = None
      BY <2>1 DEF Idles
    <2> QED
      BY <1>2, <2>1, <2>2 DEF Proves
  <1>6. HeldBy(SignedOut, None)
    BY <1>2, EmptyIsBare DEF HeldBy
  <1>7. Honest(state', account', chains', signedIn', needsConnect', changes')
    BY <1>1, <1>2, <1>3, <1>4, <1>5, <1>6 DEF Honest, Idles
  <1>8. Accounted(state, account, chains, op, deferred, events, signedIn, reconciling, changes)
    BY DEF Ground, IdHolds
  <1>9. {account', state'.identity} \subseteq OrNone(signedIn')
    BY <1>2 DEF OrNone
  <1> QED
    BY <1>1, <1>2, <1>7, <1>8, <1>9 DEF IdGoal, Accounted

-----------------------------------------------------------------------------
(* The stages load with the account in use, and hand the change on.        *)

LEMMA UserKeeps ==
    ASSUME Ground, NEW s \in Slots, NEW asks, NEW pending, asks => ~pending, ~asks => (pending <=> Inherited)
    PROVE  Keeps(s, asks, IF asks THEN [slot |-> s, changed |-> op.changed \/ deferred] ELSE NoOp,
                 pending)
  <1>1. OnceOwed(chains, op, deferred, events) /\ Owned(chains, op)
    BY DEF Ground, IdHolds, Accounted
  <1>2. op.changed => state.open
    BY <1>1, OthersAside DEF Owned, Ground
  <1>3. NoOp.slot = None /\ NoOp.changed = FALSE
    BY DEF NoOp
  <1>4. CASE asks
    BY <1>1, <1>4, NameAssumption DEF Keeps, OnceOwed
  <1>5. CASE ~asks
    <2>1. pending <=> op.changed \/ deferred
      BY <1>2, <1>5 DEF Inherited
    <2> QED
      BY <1>3, <1>5, <2>1 DEF Keeps
  <1> QED
    BY <1>4, <1>5

LEMMA QuietKeeps ==
    ASSUME Ground, NEW s \in Slots PROVE Keeps(s, FALSE, NoOp, Inherited)
  <1>1. Keeps(s, FALSE, IF FALSE THEN [slot |-> s, changed |-> op.changed \/ deferred] ELSE NoOp,
              Inherited)
    BY UserKeeps
  <1> QED
    BY <1>1

LEMMA StageKeeps ==
    ASSUME Ground, NEW s \in Slots, Stops(chains[s])
    PROVE  LET asks == chains[s].asks IN Keeps(s, asks, Kept(asks), Pending(asks))
  <1>1. OnceOwed(chains, op, deferred, events) /\ Owned(chains, op)
    BY DEF Ground, IdHolds, Accounted
  <1>2. op.slot # None \/ op.changed => op.slot = s /\ chains[s].asks
    BY <1>1, AloneServes DEF Owned
  <1>3. CASE chains[s].asks
    BY <1>1, <1>2, <1>3 DEF Keeps, Kept, Pending, OnceOwed, Owned
  <1>4. CASE ~chains[s].asks
    <2>1. NoOp.slot = None /\ NoOp.changed = FALSE
      BY DEF NoOp
    <2>2. ~op.changed
      BY <1>2, <1>4
    <2> QED
      BY <1>4, <2>1, <2>2 DEF Keeps, Kept, Pending, Inherited
  <1> QED
    BY <1>3, <1>4

LEMMA DiscoverId ==
    ASSUME Ground, NEW s \in Slots, NEW asks, NEW kept, NEW pending, NEW shown, NEW held,
           Discover(s, asks, account, kept, pending, shown, held), IsView(shown),
           HeldBy(shown, account), Bare(shown) \/ asks, ~Waits(chains[s]),
           Keeps(s, asks, kept, pending), shown.identity \in {state.identity, account},
           needsConnect' =>
              /\ account = None /\ shown.identity = None
              /\ shown.mode = "authenticated" => changes # 0 /\ signedIn = {},
           UNCHANGED << reconciling, provider >>
    PROVE  IdGoal
  <1> DEFINE c == Ask("discover", asks, FALSE, account, Nowhere)
             h == [held EXCEPT !.retry = "discover"]
  <1>1. Load(s, c, kept, pending, shown, h)
    BY DEF Discover
  <1>2. IsChain(c) /\ c.stage = "discover" /\ c.at = "session" /\ c.who = account
        /\ c.asks = asks
    BY ChainFields DEF Ask, IsChain, IdleChain
  <1> HIDE DEF c, h
  <1>3. Suits(c, shown, account, signedIn)
    BY <1>2, ModeFacts DEF Suits, Looks, PageStages
  <1> QED
    BY <1>1, <1>2, <1>3, LoadId

\* A stage below the tenants, of what is listed for the account in use.
LEMMA TierId ==
    ASSUME Ground, NEW s \in Slots, NEW c, NEW kept, NEW pending, NEW shown, NEW held,
           Load(s, c, kept, pending, shown, held), IsView(shown), IsChain(c),
           c.stage \in {"tenant", "subscription"} \cup PageStages, c.who = account,
           HeldBy(shown, account), account # None, shown.identity = account,
           ~needsConnect', ~Waits(chains[s]), Keeps(s, c.asks, kept, pending),
           UNCHANGED << reconciling, provider >>
    PROVE  IdGoal
  <1>1. Suits(c, shown, account, signedIn) /\ c.stage # "reconcile"
    BY DEF Suits, PageStages
  <1> QED
    BY <1>1, LoadId

LEMMA SelectTenantId ==
    ASSUME Ground, NEW s \in Slots, NEW tenant, NEW asks, NEW marks, NEW kept,
           NEW pending, NEW shown, IsView(shown), HeldBy(shown, account),
           account # None, shown.identity = account, ~needsConnect', ~Waits(chains[s]),
           Keeps(s, asks, kept, pending), UNCHANGED << reconciling, provider >>,
           SelectTenant(s, tenant, asks, marks, kept, pending, shown)
    PROVE  IdGoal
  <1> DEFINE u == [shown EXCEPT !.tenant = tenant, !.subs = NoList, !.sub = None,
                       !.stores = NoList, !.store = None, !.path = <<>>, !.entries = <<>>]
             of == [Nowhere EXCEPT !.tenant = tenant]
             c == Ask("tenant", asks, marks, account, of)
             h == [resources EXCEPT !.retry = "tenant"]
  <1>1. Load(s, c, kept, pending, u, h)
    BY DEF SelectTenant
  <1>2. IsView(u) /\ Narrower(shown, u)
    BY ViewFields DEF IsView, Narrower
  <1> HIDE DEF of
  <1>3. IsChain(c) /\ c.stage = "tenant" /\ c.who = account /\ c.asks = asks
    BY ChainFields DEF Ask, IsChain, IdleChain
  <1> HIDE DEF c, h, u
  <1>4. HeldBy(u, account) /\ u.identity = account
    BY <1>2, NarrowerHeld DEF Narrower
  <1> QED
    BY <1>1, <1>2, <1>3, <1>4, TierId

LEMMA SelectSubscriptionId ==
    ASSUME Ground, NEW s \in Slots, NEW sub, NEW asks, NEW marks, NEW kept,
           NEW pending, NEW shown, IsView(shown), HeldBy(shown, account),
           account # None, shown.identity = account, ~needsConnect', ~Waits(chains[s]),
           Keeps(s, asks, kept, pending), UNCHANGED << reconciling, provider >>,
           SelectSubscription(s, sub, asks, marks, kept, pending, shown)
    PROVE  IdGoal
  <1> DEFINE u == [shown EXCEPT !.sub = sub, !.stores = NoList, !.store = None,
                       !.path = <<>>, !.entries = <<>>]
             of == [shown.subs.of EXCEPT !.sub = sub]
             c == Ask("subscription", asks, marks, account, of)
             h == [resources EXCEPT !.retry = "subscription"]
  <1>1. Load(s, c, kept, pending, u, h)
    BY DEF SelectSubscription
  <1>2. IsView(u) /\ Narrower(shown, u)
    BY ViewFields DEF IsView, Narrower
  <1> HIDE DEF of
  <1>3. IsChain(c) /\ c.stage = "subscription" /\ c.who = account /\ c.asks = asks
    BY ChainFields DEF Ask, IsChain, IdleChain
  <1> HIDE DEF c, h, u
  <1>4. HeldBy(u, account) /\ u.identity = account
    BY <1>2, NarrowerHeld DEF Narrower
  <1> QED
    BY <1>1, <1>2, <1>3, <1>4, TierId

LEMMA SelectAccountId ==
    ASSUME Ground, NEW s \in Slots, NEW store, NEW asks, NEW kept, NEW pending,
           state.mode = "authenticated", state.stores.names # {},
           needsConnect' = needsConnect, ~Waits(chains[s]),
           Keeps(s, asks, kept, pending), UNCHANGED << reconciling, provider >>,
           SelectAccount(s, store, asks, kept, pending)
    PROVE  IdGoal
  <1> DEFINE u == [state EXCEPT !.store = store, !.path = <<>>, !.entries = <<>>,
                       !.picked = None]
             of == [state.stores.of EXCEPT !.store = store]
             c == Ask("account", asks, FALSE, account, of)
             h == [resources EXCEPT !.retry = "account", !.registry = {}, !.next = 0,
                       !.container = None, !.folder = None]
  <1>1. Load(s, c, kept, pending, u, h)
    BY DEF SelectAccount
  <1>2. IsView(u) /\ Narrower(state, u)
    BY SameViews, ViewFields DEF Ground, IsView, Narrower
  <1> HIDE DEF of
  <1>3. IsChain(c) /\ c.stage = "account" /\ c.who = account /\ c.asks = asks
    BY ChainFields DEF Ask, IsChain, IdleChain
  <1> HIDE DEF c, h, u
  <1>4. account # None /\ state.identity = account /\ ~needsConnect
    BY ActiveFacts DEF Bare
  <1>5. HeldBy(u, account) /\ u.identity = account
    BY <1>2, <1>4, NarrowerHeld DEF Ground, IdHolds, Honest, Narrower
  <1> QED
    BY <1>1, <1>2, <1>3, <1>4, <1>5, TierId DEF PageStages

LEMMA LoadLocationId ==
    ASSUME Ground, NEW s \in Slots, NEW container, NEW folder, NEW more, NEW asks,
           NEW kept, NEW pending, Complete(container),
           needsConnect' = needsConnect, ~Waits(chains[s]),
           Keeps(s, asks, kept, pending), UNCHANGED << reconciling, provider >>,
           LoadLocation(s, container, folder, more, asks, kept, pending)
    PROVE  IdGoal
  <1> DEFINE public == state.mode = "public"
             shown == [state EXCEPT !.path = Path(container, folder)]
             held == [resources EXCEPT !.retry = "location", !.container = container,
                                       !.folder = folder]
             who == IF public THEN Anonymous ELSE account
             of == [Target EXCEPT !.container = container, !.folder = folder]
             a == Ask("location", asks, FALSE, who, of)
             c == [a EXCEPT !.at = IF public THEN "list" ELSE "session", !.more = more]
             u == IF more # 0 THEN shown ELSE [shown EXCEPT !.entries = <<>>, !.picked = None]
             h == IF more # 0 THEN held
                  ELSE [held EXCEPT !.registry = {}, !.next = 0,
                                    !.fresh = IF public THEN "never" ELSE @]
  <1>1. Load(s, c, kept, pending, u, h)
    BY DEF LoadLocation
  <1>2. IsView(u) /\ Narrower(state, u)
    BY SameViews, ViewFields DEF Ground, IsView, Narrower
  <1> HIDE DEF of, who
  <1>3. IsChain(a) /\ a.stage = "location" /\ a.who = who /\ a.asks = asks
    BY ChainFields DEF Ask, IsChain, IdleChain
  <1> HIDE DEF a
  <1>4. IsChain(c) /\ c.stage = "location" /\ c.who = who /\ c.asks = asks
    BY <1>3, ChainFields DEF IsChain
  <1> HIDE DEF c, h, u, shown, held
  <1>5. HeldBy(u, account)
    BY <1>2, NarrowerHeld DEF Ground, IdHolds, Honest
  <1>6. CASE state.mode = "public"
    <2>1. Suits(c, u, account, signedIn) /\ c.stage # "reconcile"
      BY <1>2, <1>4, <1>6 DEF Suits, Narrower
    <2>2. needsConnect' => account = None /\ u.identity = None
      BY <1>2 DEF Ground, IdHolds, Honest, Idles, Narrower
    <2>3. u.mode # "authenticated" /\ u.identity = state.identity
      BY <1>2, <1>6 DEF Narrower
    <2> QED
      BY <1>1, <1>2, <1>4, <1>5, <2>1, <2>2, <2>3, LoadId
  <1>7. CASE state.mode = "authenticated"
    <2>1. state.stores.names # {}
      BY <1>7 DEF Complete, Target
    <2>2. account # None /\ state.identity = account /\ ~needsConnect
      BY <1>7, <2>1, ActiveFacts DEF Bare
    <2>3. c.who = account /\ u.identity = account
      BY <1>2, <1>4, <1>7, <2>2 DEF who, Narrower
    <2> QED
      BY <1>1, <1>2, <1>4, <1>5, <2>2, <2>3, TierId DEF PageStages
  <1> QED
    BY <1>6, <1>7, ModeFacts

-----------------------------------------------------------------------------
(* The requests of the user.                                               *)

LEMMA FreeWaitsForNothing ==
    ASSUME NEW s \in Slots, Free(s) PROVE ~Waits(chains[s])
  BY IdleHonest DEF Free

LEMMA RefreshId ==
    ASSUME Ground, NEW s \in Slots, Free(s), ~state.open \/ state.phase # "loading",
           \/ state.mode = "public" /\ RefreshPublic(s)
           \/ state.mode = "authenticated" /\ RefreshResources(s) /\ (state.open \/ ~needsConnect),
           UNCHANGED provider
    PROVE  IdGoal
  <1>0. ~Waits(chains[s])
    BY FreeWaitsForNothing
  <1>1. CASE RefreshPublic(s) /\ Complete(resources.container)
    <2>1. LoadLocation(s, resources.container, resources.folder, 0, FALSE, NoOp, Inherited)
          /\ UNCHANGED << reconciling, needsConnect >>
      BY <1>1 DEF RefreshPublic
    <2> QED
      BY <1>0, <1>1, <2>1, QuietKeeps, LoadLocationId
  <1>2. CASE state.mode = "public" /\ RefreshPublic(s) /\ ~Complete(resources.container)
    <2>1. state' = Failed(state, "other") /\ UNCHANGED << account, chains, auth >>
      BY <1>2 DEF RefreshPublic, auth
    <2>2. Narrower(state, state') /\ state'.open
      BY <2>1, SameViews, LikeViews, LikeIsNarrower, ViewFields DEF Ground, IsView, Failed
    <2> QED
      BY <1>2, <2>1, <2>2, StaysId
  <1>3. CASE RefreshResources(s) /\ (needsConnect \/ account = None)
    <2>1. /\ state' = SignedOut /\ account' = None /\ needsConnect'
          /\ UNCHANGED << chains, op, deferred, reconciling >>
      BY <1>3 DEF RefreshResources
    <2> QED
      BY <1>3, <2>1, SignsOutId
  <1>4. CASE RefreshResources(s) /\ ~(needsConnect \/ account = None)
    <2> DEFINE v == [Closed EXCEPT !.open = TRUE, !.identity = state.identity]
    <2>1. Discover(s, FALSE, account, NoOp, Inherited, v, NoResources)
          /\ UNCHANGED << reconciling, needsConnect >>
      BY <1>4 DEF RefreshResources
    <2>2. IsView(v) /\ EmptyView(v) /\ v.mode = "authenticated" /\ v.identity = state.identity
      BY DEF IsView, EmptyView, Closed
    <2> HIDE DEF v
    <2>3. Bare(v) /\ HeldBy(v, account)
      BY <2>2, EmptyIsBare DEF HeldBy
    <2> QED
      BY <1>0, <1>4, <2>1, <2>2, <2>3, QuietKeeps, DiscoverId
  <1> QED
    BY <1>1, <1>2, <1>3, <1>4

LEMMA OpenId ==
    ASSUME ActsOnWhatIsShown, Ground, NEW s \in Slots, Open(s)
    PROVE  IdGoal
  <1>1. ~state.open /\ Free(s) /\ UNCHANGED provider
    BY DEF Open, ActsOnWhatIsShown
  <1>2. CASE \/ state.mode = "public" /\ RefreshPublic(s)
             \/ state.mode = "authenticated" /\ ~needsConnect /\ RefreshResources(s)
    BY <1>1, <1>2, RefreshId
  <1>3. CASE /\ state' = SignedOut /\ account' = None /\ needsConnect'
             /\ UNCHANGED << chains, op, deferred, reconciling >>
    BY <1>1, <1>3, SignsOutId
  <1>4. CASE /\ UNCHANGED << account, chains, auth >>
             /\ state.mode = "public" \/ ~needsConnect
             /\ \/ state' = [state EXCEPT !.open = TRUE, !.phase = "error"]
                \/ state' = [state EXCEPT !.open = TRUE, !.phase = "ready"]
                \/ state' = [state EXCEPT !.open = TRUE, !.phase = "ready", !.error = "none"]
    <2>1. Narrower(state, state') /\ state'.open
      BY <1>4, SameViews, ViewFields DEF Ground, IsView, Narrower
    <2> QED
      BY <1>1, <1>4, <2>1, StaysId
  <1>5. \/ /\ UNCHANGED << account, chains, auth >>
           /\ state.mode = "public" \/ ~needsConnect
           /\ \/ state' = [state EXCEPT !.open = TRUE, !.phase = "error"]
              \/ state' = [state EXCEPT !.open = TRUE, !.phase = "ready"]
              \/ state' = [state EXCEPT !.open = TRUE, !.phase = "ready", !.error = "none"]
        \/ /\ state' = SignedOut /\ account' = None /\ needsConnect'
           /\ UNCHANGED << chains, op, deferred, reconciling >>
        \/ state.mode = "public" /\ RefreshPublic(s)
        \/ state.mode = "authenticated" /\ ~needsConnect /\ RefreshResources(s)
    BY Zenon DEF Open
  <1> QED
    BY <1>2, <1>3, <1>4, <1>5

LEMMA ConnectId ==
    ASSUME Ground, NEW s \in Slots, Connect(s)
    PROVE  IdGoal
  <1> DEFINE leaves == state.mode = "public"
             kept == [slot |-> s, changed |-> op.changed \/ deferred]
             shown == IF leaves THEN SignedOut ELSE state
             held == IF leaves THEN NoResources ELSE resources
  <1>1. /\ Discover(s, TRUE, account, kept, FALSE, shown, held)
        /\ Free(s) /\ ~needsConnect' /\ UNCHANGED << reconciling, provider >>
    BY DEF Connect
  <1>2. IsView(shown)
    BY SignedOutIsView, SameViews DEF Ground
  <1>3. HeldBy(shown, account) /\ shown.identity \in {state.identity, account}
    <2>1. HeldBy(state, account)
      BY DEF Ground, IdHolds, Honest
    <2>2. SignedOut.mode = "authenticated" /\ SignedOut.identity = None
      BY DEF SignedOut, Closed
    <2> QED
      BY <2>1, <2>2, EmptyIsBare DEF HeldBy
  <1>4. Keeps(s, TRUE, kept, FALSE)
    <2>1. Keeps(s, TRUE, IF TRUE THEN kept ELSE NoOp, FALSE)
      BY UserKeeps
    <2> QED
      BY <2>1
  <1> HIDE DEF kept, shown, held
  <1> QED
    BY <1>1, <1>2, <1>3, <1>4, FreeWaitsForNothing, DiscoverId

LEMMA OpenPublicId ==
    ASSUME Ground, NEW s \in Slots, OpenPublic(s)
    PROVE  IdGoal
  <1>1. /\ account' = None /\ needsConnect' = TRUE /\ op' = NoOp /\ deferred' = FALSE
        /\ changes' = changes /\ signedIn' = signedIn /\ events' = events
    BY DEF OpenPublic, Forget, provider
  <1>2. CASE chains' = Ended /\ state' = Failed([Closed EXCEPT !.mode = "public"], "other")
    <2>1. state'.identity = None /\ Bare(state') /\ state'.mode = "public"
      BY <1>2, Places DEF Failed, Closed, Bare
    <2> QED
      BY <1>1, <1>2, <2>1, ForgottenId
  <1>3. CASE ~(chains' = Ended /\ state' = Failed([Closed EXCEPT !.mode = "public"], "other"))
    <2>1. PICK store \in PublicStores, container \in Containers, folder \in OrNone(Folders) :
             \E a : PublicChoice(s, store, container, folder, a)
      BY <1>3, OpenPublicChooses
    <2>2. PICK a : PublicChoice(s, store, container, folder, a)
      BY <2>1
    <2> DEFINE d == [a EXCEPT !.at = "list", !.cur = TRUE]
    <2>3. IsChain(a) /\ a.stage = "location"
      BY <2>2, ChainFields DEF PublicChoice, Ask, IsChain, IdleChain
    <2>4. d.stage = "location" /\ chains' = [Ended EXCEPT ![s] = d]
      BY <2>2, <2>3, ChainFields DEF PublicChoice, IsChain
    <2> HIDE DEF d
    <2>5. state'.identity = None /\ state'.mode = "public"
      BY <2>2 DEF PublicChoice, Closed
    <2>6. HeldBy(state', None) /\ Serves(d, state', None, signedIn)
          /\ Idles(state', None, chains', signedIn, TRUE, changes)
      BY <2>5 DEF HeldBy, Serves, Suits, Idles
    <2>7. Honest(state', account', chains', signedIn', needsConnect', changes')
      BY <1>1, <2>4, <2>6, NewHonest
    <2>8. chains'[s] = d /\ \A t \in Slots \ {s} : chains'[t] = Ended[t]
      BY <2>4, OneNew DEF Ground
    <2>9. \A t \in Slots : ~Waits(chains'[t])
      BY <2>4, <2>8, OvertakenFacts DEF Ground, Waits
    <2>10. NoOp.slot = None /\ NoOp.changed = FALSE
      BY DEF NoOp
    <2>11. OnceOwed(chains, op, deferred, events)
           /\ (changes = 0 => Calm(chains, op, deferred, events))
      BY DEF Ground, IdHolds, Accounted
    <2>12. OnceOwed(chains', op', deferred', events') /\ Owned(chains', op')
      BY <1>1, <2>9, <2>10, <2>11 DEF OnceOwed, NoneWaits, Owned
    <2>13. changes = 0 => Calm(chains', op', deferred', events')
      <3> SUFFICES ASSUME changes = 0 PROVE Calm(chains', op', deferred', events')
        OBVIOUS
      <3>1. \A t \in Slots : Ended[t].stage # "reconcile"
        BY <2>11, OvertakenFacts DEF Ground, Calm
      <3>2. \A t \in Slots : chains'[t].stage # "reconcile"
        BY <2>4, <2>8, <3>1
      <3> QED
        BY <1>1, <2>10, <2>11, <3>2 DEF Calm
    <2>14. {account', state'.identity} \subseteq OrNone(signedIn')
      BY <1>1, <2>5 DEF OrNone
    <2> QED
      BY <1>1, <2>7, <2>9, <2>12, <2>13, <2>14 DEF IdGoal, Accounted
  <1> QED
    BY <1>2, <1>3

LEMMA RetryId ==
    ASSUME Ground, NEW s \in Slots, Retry(s)
    PROVE  IdGoal
  <1> DEFINE asks == state.mode = "authenticated" /\ Interactive
             kept == IF asks THEN [slot |-> s, changed |-> op.changed \/ deferred] ELSE NoOp
             pending == ~asks /\ Inherited
  <1>1. \/ /\ Complete(resources.container)
           /\ LoadLocation(s, resources.container, resources.folder, 0, asks, kept, pending)
        \/ UNCHANGED << view, chains, op, deferred >>
        \/ /\ state.mode = "authenticated"
           /\ \/ /\ resources.retry = "discover"
                 /\ Discover(s, asks, account, kept, pending, state, resources)
              \/ /\ state.tenant \in state.tenants.names
                 /\ SelectTenant(s, state.tenant, asks, FALSE, kept, pending, state)
              \/ /\ state.sub \in state.subs.names
                 /\ SelectSubscription(s, state.sub, asks, FALSE, kept, pending, state)
              \/ /\ Target # Nowhere
                 /\ SelectAccount(s, state.store, asks, kept, pending)
    BY Zenon DEF Retry
  <1>2. /\ state.phase = "error" /\ Free(s)
        /\ UNCHANGED << reconciling, needsConnect, provider >>
    BY DEF Retry, Quietly
  <1>3. IsView(state) /\ HeldBy(state, account) /\ ~Waits(chains[s])
    BY <1>2, SameViews, FreeWaitsForNothing DEF Ground, IdHolds, Honest
  <1>4. Keeps(s, asks, kept, pending)
    BY UserKeeps
  <1>5. state.mode = "authenticated" /\ resources.retry = "discover" => asks
    BY DEF Interactive
  <1> HIDE DEF asks, kept, pending
  <1>6. CASE /\ Complete(resources.container)
             /\ LoadLocation(s, resources.container, resources.folder, 0, asks, kept, pending)
    BY <1>2, <1>3, <1>4, <1>6, LoadLocationId
  <1>7. CASE UNCHANGED << view, chains, op, deferred >>
    <2>1. UNCHANGED << state, account, chains, auth, provider >>
      BY <1>2, <1>7 DEF view, auth
    <2>2. Narrower(state, state')
      BY <2>1 DEF Narrower
    <2> QED
      BY <2>1, <2>2, StaysId
  <1>8. CASE /\ state.mode = "authenticated" /\ resources.retry = "discover"
             /\ Discover(s, asks, account, kept, pending, state, resources)
    <2>1. needsConnect' =>
              /\ account = None /\ state.identity = None
              /\ state.mode = "authenticated" => changes # 0 /\ signedIn = {}
      BY <1>2, <1>8, BusyFacts
    <2> QED
      BY <1>2, <1>3, <1>4, <1>5, <1>8, <2>1, DiscoverId
  <1>9. CASE /\ state.mode = "authenticated" /\ state.tenant \in state.tenants.names
             /\ SelectTenant(s, state.tenant, asks, FALSE, kept, pending, state)
    <2>1. account # None /\ state.identity = account /\ ~needsConnect
      BY <1>9, ActiveFacts DEF Bare
    <2> QED
      BY <1>2, <1>3, <1>4, <1>9, <2>1, SelectTenantId
  <1>10. CASE /\ state.mode = "authenticated" /\ state.sub \in state.subs.names
              /\ SelectSubscription(s, state.sub, asks, FALSE, kept, pending, state)
    <2>1. account # None /\ state.identity = account /\ ~needsConnect
      BY <1>10, ActiveFacts DEF Bare
    <2> QED
      BY <1>2, <1>3, <1>4, <1>10, <2>1, SelectSubscriptionId
  <1>11. CASE /\ state.mode = "authenticated" /\ Target # Nowhere
              /\ SelectAccount(s, state.store, asks, kept, pending)
    <2>1. state.stores.names # {}
      BY <1>11 DEF Target
    <2> QED
      BY <1>2, <1>3, <1>4, <1>11, <2>1, SelectAccountId
  <1> QED
    BY <1>1, <1>6, <1>7, <1>8, <1>9, <1>10, <1>11

LEMMA ChoiceId ==
    ASSUME Ground, NEW s \in Slots,
           \/ \E tenant \in Tenants : ChooseTenant(s, tenant)
           \/ \E sub \in Subscriptions : ChooseSubscription(s, sub)
           \/ \E store \in Stores : ChooseAccount(s, store)
    PROVE  IdGoal
  <1>1. /\ state.mode = "authenticated" /\ Free(s)
        /\ UNCHANGED << reconciling, needsConnect, provider >>
    BY DEF ChooseTenant, ChooseSubscription, ChooseAccount, Quietly
  <1>2. IsView(state) /\ HeldBy(state, account) /\ ~Waits(chains[s])
    BY <1>1, SameViews, FreeWaitsForNothing DEF Ground, IdHolds, Honest
  <1>3. Keeps(s, FALSE, NoOp, Inherited)
    BY QuietKeeps
  <1>4. ASSUME NEW tenant \in Tenants, ChooseTenant(s, tenant) PROVE IdGoal
    <2>1. SelectTenant(s, tenant, FALSE, FALSE, NoOp, Inherited, state)
          /\ tenant \in state.tenants.names
      BY <1>4 DEF ChooseTenant
    <2>2. account # None /\ state.identity = account /\ ~needsConnect
      BY <1>1, <2>1, ActiveFacts DEF Bare
    <2> QED
      BY <1>1, <1>2, <1>3, <2>1, <2>2, SelectTenantId
  <1>5. ASSUME NEW sub \in Subscriptions, ChooseSubscription(s, sub) PROVE IdGoal
    <2>1. SelectSubscription(s, sub, FALSE, FALSE, NoOp, Inherited, state)
          /\ sub \in state.subs.names
      BY <1>5 DEF ChooseSubscription
    <2>2. account # None /\ state.identity = account /\ ~needsConnect
      BY <1>1, <2>1, ActiveFacts DEF Bare
    <2> QED
      BY <1>1, <1>2, <1>3, <2>1, <2>2, SelectSubscriptionId
  <1>6. ASSUME NEW store \in Stores, ChooseAccount(s, store) PROVE IdGoal
    <2>1. SelectAccount(s, store, FALSE, NoOp, Inherited) /\ state.stores.names # {}
      BY <1>6 DEF ChooseAccount
    <2> QED
      BY <1>1, <1>2, <1>3, <2>1, SelectAccountId
  <1> QED
    BY <1>4, <1>5, <1>6

LEMMA NavigateId ==
    ASSUME ActsOnWhatIsShown, Ground, NEW s \in Slots, NavigateUp(s) \/ LoadMore(s)
    PROVE  IdGoal
  <1>1. Free(s) /\ UNCHANGED << reconciling, needsConnect, provider >>
    BY DEF NavigateUp, LoadMore, Quietly
  <1>2. ~Waits(chains[s]) /\ Keeps(s, FALSE, NoOp, Inherited)
    BY <1>1, FreeWaitsForNothing, QuietKeeps
  <1>3. ASSUME NEW container, NEW folder, NEW more, Complete(container),
               LoadLocation(s, container, folder, more, FALSE, NoOp, Inherited)
        PROVE  IdGoal
    BY <1>1, <1>2, <1>3, LoadLocationId
  <1>4. ASSUME NEW a, a = Ask("containers", FALSE, FALSE, account, Target),
               Target # Nowhere, state.tenant # None,
               Load(s, [a EXCEPT !.more = resources.next], NoOp, Inherited, state, resources)
        PROVE  IdGoal
    <2> DEFINE c == [a EXCEPT !.more = resources.next]
    <2>1. IsChain(a) /\ a.stage = "containers" /\ a.who = account /\ a.asks = FALSE
      BY <1>4, ChainFields DEF Ask, IsChain, IdleChain
    <2>2. IsChain(c) /\ c.stage = "containers" /\ c.who = account /\ c.asks = FALSE
      BY <2>1, ChainFields DEF IsChain
    <2>3. Load(s, c, NoOp, Inherited, state, resources)
      BY <1>4
    <2> HIDE DEF c
    <2>4. state.mode = "authenticated"
      BY <1>4, ModeFacts DEF Ground, LInv, QInv, PublicApart, IsPublicView
    <2>5. account # None /\ state.identity = account /\ ~needsConnect
      BY <1>4, <2>4, ActiveFacts DEF Bare, Target
    <2>6. IsView(state) /\ HeldBy(state, account)
      BY SameViews DEF Ground, IdHolds, Honest
    <2> QED
      BY <1>1, <1>2, <2>2, <2>3, <2>5, <2>6, TierId DEF PageStages
  <1>5. \/ \E container, folder, more :
             /\ Complete(container)
             /\ LoadLocation(s, container, folder, more, FALSE, NoOp, Inherited)
        \/ \E a : /\ a = Ask("containers", FALSE, FALSE, account, Target)
                  /\ Target # Nowhere /\ state.tenant # None
                  /\ Load(s, [a EXCEPT !.more = resources.next], NoOp, Inherited,
                          state, resources)
    BY Zenon DEF NavigateUp, LoadMore, ActsOnWhatIsShown
  <1> QED
    BY <1>3, <1>4, <1>5, Zenon

LEMMA OpenFolderId ==
    ASSUME ActsOnWhatIsShown, Ground, NEW s \in Slots, NEW page \in resources.registry,
           NEW container \in Containers, NEW folder, OpenFolder(s, page, container, folder)
    PROVE  IdGoal
  <1>1. Free(s) /\ UNCHANGED << reconciling, needsConnect, provider >>
    BY DEF OpenFolder, Quietly
  <1>2. \E i \in DOMAIN state.entries : state.entries[i] = page
    BY DEF OpenFolder, Clickable, ActsOnWhatIsShown
  <1>3. state.entries # <<>>
    BY <1>2
  <1>4. TargetOf(state) # Nowhere
    BY <1>3 DEF Ground, NInv, Nests, Shows
  <1>5. Complete(container)
    BY <1>4, TargetIsOnDisplay, TargetPlace, NameAssumption DEF Ground, Complete
  <1>6. LoadLocation(s, container, folder, 0, FALSE, NoOp, Inherited)
    BY <1>5 DEF OpenFolder
  <1> QED
    BY <1>1, <1>5, <1>6, FreeWaitsForNothing, QuietKeeps, LoadLocationId

LEMMA UserId ==
    ASSUME ActsOnWhatIsShown, Ground, NEW s \in Slots, UserStep(s)
    PROVE  IdGoal
  <1>1. CASE Refresh(s)
    BY <1>1, ModeFacts, RefreshId DEF Refresh
  <1>2. CASE Open(s) \/ Connect(s) \/ OpenPublic(s) \/ Retry(s)
    BY <1>2, OpenId, ConnectId, OpenPublicId, RetryId
  <1>3. CASE NavigateUp(s) \/ LoadMore(s)
    BY <1>3, NavigateId
  <1>4. CASE \/ \E tenant \in Tenants : ChooseTenant(s, tenant)
             \/ \E sub \in Subscriptions : ChooseSubscription(s, sub)
             \/ \E store \in Stores : ChooseAccount(s, store)
    BY <1>4, ChoiceId
  <1>5. CASE \E page \in resources.registry, container \in Containers,
                folder \in OrNone(Folders) : OpenFolder(s, page, container, folder)
    BY <1>5, OpenFolderId
  <1> QED
    BY <1>1, <1>2, <1>3, <1>4, <1>5 DEF UserStep

LEMMA InstantId ==
    ASSUME ActsOnWhatIsShown, Ground, Instant
    PROVE  IdGoal
  <1>1. CASE Disconnect \/ BrowseLocal \/ (Close /\ Unproven)
    <2>1. /\ state' \in {SignedOut, Closed} /\ account' = None /\ chains' = Ended
          /\ op' = NoOp /\ ~deferred'
          /\ events' = events /\ signedIn' = signedIn /\ changes' = changes
      BY <1>1 DEF Disconnect, BrowseLocal, Forget, Close, provider
    <2>2. \A v \in {SignedOut, Closed} :
             Bare(v) /\ v.identity = None /\ v.phase \in {"closed", "signedOut"}
      <3>1. Closed.phase = "closed" /\ SignedOut.phase = "signedOut"
        BY DEF SignedOut, Closed
      <3> QED
        BY <3>1, EmptyIsBare, EmptyIdentity
    <2> QED
      BY <2>1, <2>2, ForgottenId
  <1>2. CASE Close /\ ~Unproven
    <2>0. /\ state' = [state EXCEPT !.open = FALSE, !.phase = "closed"]
          /\ account' = account /\ chains' = Ended /\ op' = NoOp /\ deferred' = FALSE
          /\ needsConnect' = needsConnect
          /\ events' = events /\ signedIn' = signedIn /\ changes' = changes
      BY <1>2 DEF Close, provider
    <2>1. Narrower(state, state') /\ state'.phase = "closed"
      BY <2>0, SameViews, ViewFields DEF Ground, IsView, Narrower
    <2>2. HeldBy(state', account)
      BY <2>1, NarrowerHeld DEF Ground, IdHolds, Honest
    <2>3. \A t \in Slots : /\ ~Stops(Ended[t]) /\ Serves(Ended[t], state', account, signedIn)
                           /\ Proves(Ended[t], state', account, signedIn, needsConnect)
      BY OvertakenHonest
    <2>4. needsConnect => account = None /\ state.identity = None
      BY DEF Ground, IdHolds, Honest, Idles
    <2>5. Honest(state', account', chains', signedIn', needsConnect', changes')
      BY <2>0, <2>1, <2>2, <2>3, <2>4 DEF Honest, Idles, Narrower
    <2>6. Accounted(state, account, chains, op, deferred, events, signedIn, reconciling, changes)
      BY DEF Ground, IdHolds
    <2>7. ~deferred /\ ~op.changed /\ NoneWaits(chains)
      BY <1>2, <2>6 DEF Unproven, Accounted, NoneWaits
    <2>8. \A t \in Slots : ~Waits(Ended[t]) /\ Ended[t].stage = chains[t].stage
      BY OvertakenFacts DEF Ground, Waits
    <2>9. NoOp.slot = None /\ NoOp.changed = FALSE
      BY DEF NoOp
    <2>10. OnceOwed(chains', op', deferred', events') /\ Owned(chains', op')
      BY <2>0, <2>6, <2>8, <2>9 DEF Accounted, OnceOwed, NoneWaits, Owned
    <2>11. {account', state'.identity} \subseteq OrNone(signedIn')
              \/ Owing(chains', op', deferred', events')
      BY <2>0, <2>1, <2>6, <2>7 DEF Accounted, Owing, Narrower
    <2>12. changes = 0 => Calm(chains', op', deferred', events')
      BY <2>0, <2>6, <2>8, <2>9 DEF Accounted, Calm
    <2> QED
      BY <2>0, <2>5, <2>8, <2>10, <2>11, <2>12 DEF IdGoal, Accounted
  <1>3. ~StaleClick
    BY DEF StaleClick, ActsOnWhatIsShown
  <1>4. CASE CacheExpires \/ \E page \in resources.registry : OpenFile(page)
    <2>1. /\ UNCHANGED << account, chains, auth, provider >>
          /\ state' = state \/ \E page : state' = [state EXCEPT !.picked = page]
      BY <1>4 DEF CacheExpires, OpenFile
    <2>2. Narrower(state, state') /\ state'.phase = state.phase /\ state'.open = state.open
      BY <2>1, SameViews, ViewFields DEF Ground, IsView, Narrower
    <2> QED
      BY <2>1, <2>2, StaysId
  <1> QED
    BY <1>1, <1>2, <1>3, <1>4 DEF Instant

-----------------------------------------------------------------------------
(* The answers.                                                            *)

\* A session was found for a chain that looks for one: discover adopts its account,
\* and the other stages have it already.
LEMMA GrantedHonest ==
    ASSUME Ground, NEW s \in Slots, NEW a, a # None, IsCurrent(s), Granted(s, a),
           chains[s].stage # "reconcile", chains[s].at # "list",
           chains[s].who # None => a = chains[s].who, a \in signedIn', None \notin signedIn',
           changes # 0 => signedIn' = signedIn, changes # 0 => changes' = changes
    PROVE  /\ Honest(state', account', chains', signedIn', needsConnect', changes')
           /\ account' \in {a, account}
           /\ \A t \in Slots : /\ chains'[t].stage = chains[t].stage
                               /\ chains'[t].cur = chains[t].cur
                               /\ chains'[t].live = chains[t].live
                               /\ chains'[t].asks = chains[t].asks
  <1> DEFINE of == IF chains[s].stage = "location"
                   THEN [chains[s].of EXCEPT !.container = resources.container,
                                             !.folder = resources.folder]
                   ELSE chains[s].of
             d == [chains[s] EXCEPT !.at = "list", !.who = a, !.of = of]
  <1>1. AreChains(chains) /\ IsChain(chains[s])
    BY SameViews DEF Ground, AreChains
  <1>2. chains' = [chains EXCEPT ![s] = d] /\ state' = state /\ needsConnect' = needsConnect
        /\ account' = IF chains[s].stage = "discover" THEN a ELSE account
    BY <1>1, ChainFields DEF Granted, AreChains, IsChain, auth
  <1> HIDE DEF of
  <1>3. d.stage = chains[s].stage /\ d.cur = chains[s].cur /\ d.live = chains[s].live
        /\ d.asks = chains[s].asks /\ d.who = a /\ d.at = "list"
    BY <1>1, ChainFields DEF IsChain
  <1> HIDE DEF d
  <1>4. chains'[s] = d /\ \A t \in Slots \ {s} : chains'[t] = chains[t]
    BY <1>2, OneNew DEF Ground
  <1>5. Stops(chains[s]) /\ chains[s].cur
    BY DEF Stops, IsCurrent
  <1>6. state.mode = "authenticated"
    BY OtherChainsAreApart, ModeFacts DEF Ground, LInv
  <1>7. /\ HeldBy(state, account) /\ Suits(chains[s], state, account, signedIn)
        /\ \A t \in Slots : Proves(chains[t], state, account, signedIn, needsConnect)
        /\ Idles(state, account, chains, signedIn, needsConnect, changes)
        /\ changes = 0 => \A t \in Slots : chains[t].stage # "reconcile"
    BY <1>5 DEF Ground, IdHolds, Honest, Serves, Accounted, Calm
  <1>8. ~needsConnect
    BY <1>5, <1>6, <1>7 DEF Idles
  <1>9. \A t \in Slots \ {s} : \A v, acc, in : Serves(chains[t], v, acc, in)
    BY <1>5, AloneServes
  <1>10. /\ HeldBy(state, account')
         /\ Suits(d, state, account', signedIn')
         /\ \A t \in Slots \ {s} : Proves(chains[t], state, account', signedIn', needsConnect)
    <2>1. CASE chains[s].stage = "discover"
      <3>1. Looks(chains[s], state, account, signedIn) /\ account' = a
        BY <1>2, <1>6, <1>7, <2>1 DEF Suits
      <3>2. HeldBy(state, a)
        BY <1>6, <1>7, <3>1 DEF Looks, HeldBy
      <3>3. Suits(d, state, a, signedIn')
        BY <1>3, <2>1 DEF Suits, PageStages
      <3>4. account \in signedIn => a = account
        BY <3>1, ModeFacts DEF Looks
      <3>5. \A t \in Slots \ {s} : Proves(chains[t], state, a, signedIn', needsConnect)
        BY <1>7, <3>4 DEF Proves
      <3> QED
        BY <3>1, <3>2, <3>3, <3>5
    <2>2. CASE chains[s].stage # "discover"
      <3>1. account' = account
        BY <1>2, <2>2
      <3>2. \A t \in Slots \ {s} : Proves(chains[t], state, account, signedIn', needsConnect)
        BY <1>7 DEF Proves
      <3>3. Suits(d, state, account, signedIn')
        BY <1>3, <1>6, <1>7, <2>2 DEF Suits
      <3> QED
        BY <1>7, <3>1, <3>2, <3>3
    <2> QED
      BY <2>1, <2>2
  <1>11. \A t \in Slots : Serves(chains'[t], state, account', signedIn')
    <2>1. Serves(d, state, account', signedIn')
      BY <1>10 DEF Serves
    <2> QED
      BY <1>4, <1>9, <2>1
  <1>12. \A t \in Slots : Proves(chains'[t], state, account', signedIn', needsConnect)
    <2>1. Proves(d, state, account', signedIn', needsConnect)
      BY <1>3 DEF Proves
    <2> QED
      BY <1>4, <1>10, <2>1
  <1>13. Idles(state, account', chains', signedIn', needsConnect, changes')
    BY <1>8 DEF Idles
  <1>14. Honest(state', account', chains', signedIn', needsConnect', changes')
    BY <1>2, <1>10, <1>11, <1>12, <1>13 DEF Honest
  <1> QED
    BY <1>2, <1>3, <1>4, <1>14

\* Chains that stay in their stage account for the change as before.
LEMMA MovedAccounted ==
    ASSUME Ground, NEW acc, acc \in OrNone(signedIn) \cup {account},
           \A t \in Slots : /\ chains'[t].stage = chains[t].stage
                            /\ chains'[t].cur = chains[t].cur
                            /\ chains'[t].live = chains[t].live
                            /\ chains'[t].asks = chains[t].asks
    PROVE  Accounted(state, acc, chains', op, deferred, events, signedIn, reconciling, changes)
  <1>1. \A t \in Slots : /\ Waits(chains'[t]) <=> Waits(chains[t])
                         /\ Stops(chains'[t]) <=> Stops(chains[t])
    BY DEF Waits, Stops
  <1>2. Accounted(state, account, chains, op, deferred, events, signedIn, reconciling, changes)
    BY DEF Ground, IdHolds
  <1>3. NoneWaits(chains') <=> NoneWaits(chains)
    BY <1>1 DEF NoneWaits
  <1>4. OnceOwed(chains', op, deferred, events) /\ Owned(chains', op)
    BY <1>1, <1>2, <1>3 DEF Accounted, OnceOwed, Owned
  <1>5. {acc, state.identity} \subseteq OrNone(signedIn)
           \/ Owing(chains', op, deferred, events)
    BY <1>2, <1>3 DEF Accounted, Owing
  <1>6. changes = 0 => Calm(chains', op, deferred, events)
    BY <1>2 DEF Accounted, Calm
  <1>7. \A t \in Slots : Waits(chains'[t]) => reconciling /\ state.open
    BY <1>1, <1>2 DEF Accounted
  <1> QED
    BY <1>4, <1>5, <1>6, <1>7 DEF Accounted

LEMMA SilentSessionId ==
    ASSUME Ground, NEW s \in Slots, SilentSession(s)
    PROVE  IdGoal
  <1>1. PICK a \in Offered(s) : Granted(s, a)
    BY DEF SilentSession
  <1>2. /\ IsCurrent(s) /\ chains[s].stage # "reconcile" /\ chains[s].at # "list"
        /\ changes' = changes /\ signedIn' = signedIn /\ events' = events
    BY DEF SilentSession, provider
  <1>3. a \in signedIn /\ a # None /\ (chains[s].who # None => a = chains[s].who)
    BY <1>1, ModeFacts DEF Offered
  <1>4. /\ Honest(state', account', chains', signedIn', needsConnect', changes')
        /\ account' \in {a, account}
        /\ \A t \in Slots : /\ chains'[t].stage = chains[t].stage
                            /\ chains'[t].cur = chains[t].cur
                            /\ chains'[t].live = chains[t].live
                            /\ chains'[t].asks = chains[t].asks
    BY <1>1, <1>2, <1>3, ModeFacts, GrantedHonest
  <1>5. account' \in OrNone(signedIn) \cup {account}
    BY <1>3, <1>4 DEF OrNone
  <1>6. Accounted(state, account', chains', op, deferred, events, signedIn, reconciling, changes)
    BY <1>4, <1>5, MovedAccounted
  <1>7. state' = state /\ op' = op /\ deferred' = deferred /\ reconciling' = reconciling
    BY <1>1 DEF Granted, auth
  <1> QED
    BY <1>2, <1>4, <1>6, <1>7 DEF IdGoal

\* A chain that finds no session waits on, or looks for anybody.
LEMMA LooksOnId ==
    ASSUME Ground, NEW s \in Slots, NEW d, chains' = [chains EXCEPT ![s] = d],
           d.stage = chains[s].stage, d.cur = chains[s].cur, d.live = chains[s].live,
           d.asks = chains[s].asks, chains[s].stage # "reconcile",
           Suits(d, state, account, signedIn), UNCHANGED << view, auth, provider >>
    PROVE  IdGoal
  <1>1. /\ state' = state /\ account' = account /\ op' = op /\ deferred' = deferred
        /\ reconciling' = reconciling /\ needsConnect' = needsConnect
        /\ changes' = changes /\ signedIn' = signedIn /\ events' = events
    BY DEF view, auth, provider
  <1>2. chains'[s] = d /\ \A t \in Slots \ {s} : chains'[t] = chains[t]
    BY OneNew DEF Ground
  <1>3. /\ HeldBy(state, account)
        /\ \A t \in Slots : Serves(chains[t], state, account, signedIn)
        /\ \A t \in Slots : Proves(chains[t], state, account, signedIn, needsConnect)
        /\ Idles(state, account, chains, signedIn, needsConnect, changes)
    BY DEF Ground, IdHolds, Honest
  <1>4. \A t \in Slots : Serves(chains'[t], state, account, signedIn)
    BY <1>2, <1>3 DEF Serves
  <1>5. \A t \in Slots : Proves(chains'[t], state, account, signedIn, needsConnect)
    BY <1>2, <1>3 DEF Proves
  <1>6. \A t \in Slots : Stops(chains'[t]) <=> Stops(chains[t])
    BY <1>2 DEF Stops
  <1>7. Idles(state, account, chains', signedIn, needsConnect, changes)
    BY <1>3, <1>6 DEF Idles
  <1>8. Honest(state, account, chains', signedIn, needsConnect, changes)
    BY <1>3, <1>4, <1>5, <1>7 DEF Honest
  <1>9. Accounted(state, account, chains', op, deferred, events, signedIn, reconciling, changes)
    BY <1>2, MovedAccounted
  <1> QED
    BY <1>1, <1>8, <1>9 DEF IdGoal

LEMMA NoSilentSessionId ==
    ASSUME Ground, NEW s \in Slots, NoSilentSession(s)
    PROVE  IdGoal
  <1>1. /\ Stops(chains[s]) /\ chains[s].cur /\ chains[s].stage # "reconcile"
        /\ chains[s].at \in {"session", "fallback"} /\ UNCHANGED provider
        /\ chains[s].stage = "discover" => Offered(s) = {}
    BY DEF NoSilentSession, Stops, IsCurrent
  <1>2. IsChain(chains[s])
    BY SameViews DEF Ground, AreChains
  <1>3. Suits(chains[s], state, account, signedIn)
    BY <1>1 DEF Ground, IdHolds, Honest, Serves
  <1>4. \/ /\ UNCHANGED << view, auth >> /\ chains[s].asks
           /\ chains' = [chains EXCEPT ![s].at = "prompt"]
        \/ /\ UNCHANGED << view, auth >> /\ ~chains[s].asks /\ Pinned(s)
           /\ chains' = [chains EXCEPT ![s].at = "fallback", ![s].who = None]
        \/ /\ ~chains[s].asks /\ chains[s].stage = "discover" /\ ~Pinned(s)
           /\ SettleSignedOut(s, chains) /\ UNCHANGED << op, deferred, reconciling >>
        \/ Settle(s, Failed(state, "authorize"), resources)
    BY Zenon DEF NoSilentSession
  <1>5. CASE /\ UNCHANGED << view, auth >> /\ chains[s].asks
             /\ chains' = [chains EXCEPT ![s].at = "prompt"]
    <2> DEFINE d == [chains[s] EXCEPT !.at = "prompt"]
    <2>1. chains' = [chains EXCEPT ![s] = d]
      BY <1>5
    <2>2. d.stage = chains[s].stage /\ d.cur = chains[s].cur /\ d.live = chains[s].live
          /\ d.asks = chains[s].asks /\ d.who = chains[s].who /\ d.at = "prompt"
      BY <1>2, ChainFields DEF IsChain
    <2> HIDE DEF d
    <2>3. Suits(d, state, account, signedIn)
      BY <1>1, <1>3, <2>2 DEF Suits, Looks
    <2> QED
      BY <1>1, <1>5, <2>1, <2>2, <2>3, LooksOnId
  <1>6. CASE /\ UNCHANGED << view, auth >> /\ ~chains[s].asks /\ Pinned(s)
             /\ chains' = [chains EXCEPT ![s].at = "fallback", ![s].who = None]
    <2> DEFINE d == [chains[s] EXCEPT !.at = "fallback", !.who = None]
    <2>1. chains' = [chains EXCEPT ![s] = d]
      BY <1>2, <1>6, SameViews, ChainFields DEF Ground, AreChains, IsChain
    <2>2. d.stage = chains[s].stage /\ d.cur = chains[s].cur /\ d.live = chains[s].live
          /\ d.asks = chains[s].asks /\ d.who = None /\ d.at = "fallback"
      BY <1>2, ChainFields DEF IsChain
    <2> HIDE DEF d
    <2>3. chains[s].who # None /\ chains[s].stage = "discover" /\ chains[s].who \notin signedIn
      BY <1>1, <1>6 DEF Pinned, Offered
    <2>4. state.mode = "authenticated" => Looks(chains[s], state, account, signedIn)
      BY <1>1, <1>3, <2>3 DEF Suits
    <2>5. state.mode = "authenticated" => Looks(d, state, account, signedIn)
      BY <1>6, <2>2, <2>3, <2>4, ModeFacts DEF Looks
    <2>6. Suits(d, state, account, signedIn)
      BY <2>2, <2>3, <2>5 DEF Suits, PageStages
    <2> QED
      BY <1>1, <1>6, <2>1, <2>2, <2>6, LooksOnId
  <1>7. CASE /\ ~chains[s].asks /\ chains[s].stage = "discover" /\ ~Pinned(s)
             /\ SettleSignedOut(s, chains) /\ UNCHANGED << op, deferred, reconciling >>
    <2>1. signedIn = {}
      BY <1>1, <1>7 DEF Pinned, Offered
    <2> QED
      BY <1>1, <1>7, <2>1, NobodyFoundId
  <1>8. CASE Settle(s, Failed(state, "authorize"), resources)
    BY <1>1, <1>8, KeepsViewId
  <1> QED
    BY <1>4, <1>5, <1>6, <1>7, <1>8

LEMMA EndsId ==
    ASSUME Ground, NEW s \in Slots, Dropped(s) \/ StageFailed(s) \/ PromptRejected(s)
    PROVE  IdGoal
  <1>1. UNCHANGED provider
    BY DEF Dropped, StageFailed, PromptRejected
  <1>2. chains[s].stage # "reconcile"
    <2>1. chains[s].stage = "reconcile" => chains[s].at # "prompt"
      BY DEF Ground, IdHolds, Honest, Proves
    <2> QED
      BY <2>1 DEF Dropped, StageFailed, PromptRejected
  <1>3. \/ Settle(s, state, resources)
        \/ chains[s].cur /\ \E kind : Settle(s, Failed(state, kind), resources)
    BY Zenon DEF Dropped, StageFailed, PromptRejected, IsCurrent
  <1> QED
    BY <1>1, <1>2, <1>3, KeepsViewId DEF Stops

\* A listing settles the one chain that may write.
LEMMA ListedSettlesId ==
    ASSUME Ground, NEW s \in Slots, Stops(chains[s]), NEW v, NEW held, Settle(s, v, held),
           HeldBy(v, account), state.open => v.open,
           v.identity \in {state.identity, account},
           needsConnect =>
              /\ v.identity = None
              /\ v.mode = "authenticated" => changes # 0 /\ signedIn = {},
           UNCHANGED provider
    PROVE  IdGoal
  <1>1. chains[s].stage # "reconcile"
    BY DEF Stops
  <1> QED
    BY <1>1, AloneServes, SettleId

LEMMA DiscoverListedId ==
    ASSUME Ground, NEW s \in Slots, DiscoverListed(s)
    PROVE  IdGoal
  <1> DEFINE Shown(names) == [Closed EXCEPT !.open = state.open, !.mode = state.mode,
                !.public = state.public, !.phase = "ready", !.identity = chains[s].who,
                !.tenants = Listing(s, names)]
             asks == chains[s].asks
             h == [resources EXCEPT !.fresh = "fresh"]
  <1>1. Listed(s, "discover") /\ UNCHANGED provider
    BY DEF DiscoverListed
  <1>2. Stops(chains[s]) /\ chains[s].who # None
    BY <1>1, ListedAlone DEF Brings, Ground
  <1>3. state.mode = "authenticated"
    BY OtherChainsAreApart, ModeFacts DEF DiscoverListed, Listed, Ground, LInv
  <1>4. chains[s].who = account
    BY <1>1, <1>2, <1>3 DEF Ground, IdHolds, Honest, Serves, Suits, Listed, IsCurrent
  <1>5. account # None /\ ~needsConnect
    BY <1>2, <1>4 DEF Ground, IdHolds, Honest, Idles
  <1>6. ASSUME NEW names
        PROVE  /\ IsView(Shown(names)) /\ Shown(names).mode = "authenticated"
               /\ Shown(names).open = state.open /\ Shown(names).identity = chains[s].who
               /\ Shown(names).tenants.by = chains[s].who
               /\ Shown(names).subs = NoList /\ Shown(names).stores = NoList
               /\ Shown(names).entries = <<>>
    BY <1>3 DEF IsView, Closed, Listing
  <1>7. \/ Settle(s, Shown({}), h)
        \/ \E tenant \in Tenants :
             /\ SelectTenant(s, tenant, asks, TRUE, Kept(asks), Pending(asks), Shown(Tenants))
             /\ UNCHANGED << reconciling, needsConnect, promises >>
    BY Zenon DEF DiscoverListed
  <1> HIDE DEF Shown, h
  <1>8. ASSUME NEW names PROVE HeldBy(Shown(names), account)
    <2>1. ListedBy(Shown(names), account)
      <3>1. DOMAIN <<>> = {} /\ NoList.names = {}
        BY Places
      <3> QED
        BY <1>4, <1>6, <3>1 DEF ListedBy
    <2> QED
      BY <1>4, <1>5, <1>6, <2>1 DEF HeldBy
  <1>9. CASE Settle(s, Shown({}), h)
    BY <1>1, <1>2, <1>4, <1>5, <1>6, <1>8, <1>9, ListedSettlesId
  <1>10. ASSUME NEW tenant \in Tenants,
                SelectTenant(s, tenant, asks, TRUE, Kept(asks), Pending(asks), Shown(Tenants)),
                UNCHANGED << reconciling, needsConnect, promises >>
         PROVE  IdGoal
    <2>1. Keeps(s, asks, Kept(asks), Pending(asks)) /\ ~Waits(chains[s])
      BY <1>2, StageKeeps DEF Stops, Waits
    <2> HIDE DEF asks
    <2> QED
      BY <1>1, <1>4, <1>5, <1>6, <1>8, <1>10, <2>1, SelectTenantId
  <1> QED
    BY <1>7, <1>9, <1>10

\* What is listed below the tenants has its account.
LEMMA BelowFacts ==
    ASSUME Ground, NEW s \in Slots, NEW stage, Listed(s, stage),
           stage \in {"tenant", "subscription"} \cup PageStages, state.mode = "authenticated"
    PROVE  /\ Stops(chains[s]) /\ ~Waits(chains[s])
           /\ account # None /\ chains[s].who = account /\ state.identity = account
           /\ ~needsConnect /\ ListedBy(state, account)
  <1>1. Stops(chains[s]) /\ ~Waits(chains[s]) /\ chains[s].cur /\ chains[s].stage = stage
    BY DEF Listed, Stops, Waits, IsCurrent, PageStages
  <1>2. HeldBy(state, account) /\ Suits(chains[s], state, account, signedIn)
        /\ Idles(state, account, chains, signedIn, needsConnect, changes)
    BY <1>1 DEF Ground, IdHolds, Honest, Serves
  <1>3. account # None /\ chains[s].who = account /\ state.identity = account
    BY <1>1, <1>2 DEF Suits
  <1>4. ListedBy(state, account)
    <2>1. Bare(state) => ListedBy(state, account)
      <3>1. DOMAIN <<>> = {}
        OBVIOUS
      <3> QED
        BY <3>1 DEF Bare, ListedBy
    <2> QED
      BY <1>2, <2>1 DEF HeldBy
  <1> QED
    BY <1>1, <1>2, <1>3, <1>4 DEF Idles

LEMMA TenantListedId ==
    ASSUME Ground, NEW s \in Slots, TenantListed(s)
    PROVE  IdGoal
  <1> DEFINE Shown(names) == [state EXCEPT !.phase = "ready", !.subs = Listing(s, names),
                                           !.sub = None]
             asks == chains[s].asks
             marks == chains[s].marks
  <1>1. Listed(s, "tenant") /\ UNCHANGED provider
    BY DEF TenantListed
  <1>2. state.mode = "authenticated"
    BY OtherChainsAreApart, ModeFacts DEF TenantListed, Listed, Ground, LInv
  <1>3. /\ Stops(chains[s]) /\ ~Waits(chains[s])
        /\ account # None /\ chains[s].who = account /\ state.identity = account
        /\ ~needsConnect /\ ListedBy(state, account)
    BY <1>1, <1>2, BelowFacts
  <1>4. ASSUME NEW names
        PROVE  /\ IsView(Shown(names)) /\ Shown(names).mode = "authenticated"
               /\ Shown(names).open = state.open /\ Shown(names).identity = state.identity
               /\ Shown(names).subs.by = account
               /\ Shown(names).tenants = state.tenants /\ Shown(names).stores = state.stores
               /\ Shown(names).entries = state.entries
    BY <1>2, <1>3, SameViews, ViewFields DEF Ground, IsView, Listing
  <1>5. \/ Settle(s, Shown({}), resources)
        \/ \E sub \in Subscriptions :
             /\ SelectSubscription(s, sub, asks, marks, Kept(asks), Pending(asks),
                                   Shown(Subscriptions))
             /\ UNCHANGED << reconciling, needsConnect, promises >>
    BY Zenon DEF TenantListed
  <1> HIDE DEF Shown
  <1>6. ASSUME NEW names PROVE HeldBy(Shown(names), account)
    BY <1>3, <1>4 DEF HeldBy, ListedBy
  <1>7. CASE Settle(s, Shown({}), resources)
    BY <1>1, <1>3, <1>4, <1>6, <1>7, ListedSettlesId
  <1>8. ASSUME NEW sub \in Subscriptions,
               SelectSubscription(s, sub, asks, marks, Kept(asks), Pending(asks),
                                  Shown(Subscriptions)),
               UNCHANGED << reconciling, needsConnect, promises >>
        PROVE  IdGoal
    <2>1. Keeps(s, asks, Kept(asks), Pending(asks))
      BY <1>3, StageKeeps
    <2> HIDE DEF asks, marks
    <2> QED
      BY <1>1, <1>3, <1>4, <1>6, <1>8, <2>1, SelectSubscriptionId
  <1> QED
    BY <1>5, <1>7, <1>8

LEMMA SubscriptionListedId ==
    ASSUME Ground, NEW s \in Slots, SubscriptionListed(s)
    PROVE  IdGoal
  <1>1. PICK names :
           Settle(s, [state EXCEPT !.phase = "ready", !.stores = Listing(s, names)], resources)
    BY DEF SubscriptionListed
  <1> DEFINE v == [state EXCEPT !.phase = "ready", !.stores = Listing(s, names)]
  <1>2. Listed(s, "subscription") /\ UNCHANGED provider
    BY DEF SubscriptionListed
  <1>3. state.mode = "authenticated"
    BY OtherChainsAreApart, ModeFacts DEF SubscriptionListed, Listed, Ground, LInv
  <1>4. /\ Stops(chains[s]) /\ account # None /\ chains[s].who = account
        /\ state.identity = account /\ ~needsConnect /\ ListedBy(state, account)
    BY <1>2, <1>3, BelowFacts
  <1>5. /\ v.mode = "authenticated" /\ v.open = state.open /\ v.identity = state.identity
        /\ v.stores.by = account /\ v.tenants = state.tenants /\ v.subs = state.subs
        /\ v.entries = state.entries
    BY <1>3, <1>4, SameViews, ViewFields DEF Ground, IsView, Listing
  <1>6. Settle(s, v, resources)
    BY <1>1
  <1> HIDE DEF v
  <1>7. HeldBy(v, account)
    BY <1>4, <1>5 DEF HeldBy, ListedBy
  <1> QED
    BY <1>2, <1>4, <1>5, <1>6, <1>7, ListedSettlesId

LEMMA PageListedId ==
    ASSUME Ground, NEW s \in Slots, PageListed(s)
    PROVE  IdGoal
  <1> DEFINE page == [by |-> chains[s].who, of |-> chains[s].of,
                      n |-> IF chains[s].more = 0 THEN 1 ELSE chains[s].more]
             entries == IF chains[s].more = 0 THEN <<page>> ELSE Append(state.entries, page)
             v == [state EXCEPT !.phase = "ready", !.error = "none",
                          !.path = Path(resources.container, resources.folder),
                          !.entries = entries]
  <1>1. PICK h : Settle(s, v, h)
    BY PageListedSettles
  <1>2. PICK stage \in PageStages : Listed(s, stage)
    BY Zenon DEF PageListed, PageStages
  <1>3. UNCHANGED provider
    BY DEF PageListed
  <1>4. Stops(chains[s])
    BY <1>2 DEF Listed, Stops, IsCurrent, PageStages
  <1>5. page.by = chains[s].who
    OBVIOUS
  <1> HIDE DEF page
  <1>6. /\ v.mode = state.mode /\ v.open = state.open /\ v.identity = state.identity
        /\ v.tenants = state.tenants /\ v.subs = state.subs /\ v.stores = state.stores
        /\ v.entries = entries
    BY SameViews, ViewFields DEF Ground, IsView
  <1>7. ASSUME NEW a, \A i \in DOMAIN state.entries : state.entries[i].by = a, page.by = a
        PROVE  \A i \in DOMAIN entries : entries[i].by = a
    <2>1. PICK S : state.entries \in Seq(S)
      BY DEF Ground, NInv, Nests, Shows
    <2> DEFINE T == S \cup {page}
    <2>2. state.entries \in Seq(T) /\ page \in T
      BY <2>1
    <2> HIDE DEF T
    <2>3. CASE chains[s].more = 0
      BY <1>7, <2>3
    <2>4. CASE chains[s].more # 0
      BY <1>7, <2>2, <2>4
    <2> QED
      BY <2>3, <2>4
  <1> HIDE DEF entries, v
  <1>8. CASE state.mode = "public"
    <2>1. HeldBy(v, account)
      BY <1>6, <1>8 DEF Ground, IdHolds, Honest, HeldBy
    <2>2. needsConnect => v.identity = None
      BY <1>6 DEF Ground, IdHolds, Honest, Idles
    <2> QED
      BY <1>1, <1>3, <1>4, <1>6, <1>8, <2>1, <2>2, ListedSettlesId
  <1>9. CASE state.mode = "authenticated"
    <2>1. /\ account # None /\ chains[s].who = account /\ state.identity = account
          /\ ~needsConnect /\ ListedBy(state, account)
      BY <1>2, <1>9, BelowFacts
    <2>2. \A i \in DOMAIN entries : entries[i].by = account
      BY <1>5, <1>7, <2>1 DEF ListedBy
    <2>3. HeldBy(v, account)
      BY <1>6, <1>9, <2>1, <2>2 DEF HeldBy, ListedBy
    <2> QED
      BY <1>1, <1>3, <1>4, <1>6, <2>1, <2>3, ListedSettlesId
  <1> QED
    BY <1>8, <1>9, ModeFacts

LEMMA ProvedId ==
    ASSUME Ground, NEW s \in Slots, Proved(s)
    PROVE  IdGoal
  <1> DEFINE d == [chains[s] EXCEPT !.at = "proved"]
  <1>1. /\ chains' = [chains EXCEPT ![s] = d]
        /\ state' = state /\ account' = account /\ op' = op /\ deferred' = deferred
        /\ reconciling' = reconciling /\ needsConnect' = needsConnect
        /\ changes' = changes /\ signedIn' = signedIn /\ events' = events
    BY DEF Proved, view, auth, provider
  <1>2. IsChain(chains[s])
    BY SameViews DEF Ground, AreChains
  <1>3. d.stage = chains[s].stage /\ d.cur = chains[s].cur /\ d.live = chains[s].live
        /\ d.asks = chains[s].asks /\ d.who = chains[s].who /\ d.at = "proved"
    BY <1>2, ChainFields DEF IsChain
  <1>4. chains[s].stage = "reconcile" /\ chains[s].who \in signedIn
    BY DEF Proved
  <1> HIDE DEF d
  <1>5. chains'[s] = d /\ \A t \in Slots \ {s} : chains'[t] = chains[t]
    BY <1>1, OneNew DEF Ground
  <1>6. /\ HeldBy(state, account)
        /\ \A t \in Slots : Serves(chains[t], state, account, signedIn)
        /\ \A t \in Slots : Proves(chains[t], state, account, signedIn, needsConnect)
        /\ Idles(state, account, chains, signedIn, needsConnect, changes)
    BY DEF Ground, IdHolds, Honest
  <1>7. \A t \in Slots : Serves(chains'[t], state, account, signedIn)
    <2>1. Serves(d, state, account, signedIn)
      BY <1>3, <1>4 DEF Serves, Suits, PageStages
    <2> QED
      BY <1>5, <1>6, <2>1
  <1>8. \A t \in Slots : Proves(chains'[t], state, account, signedIn, needsConnect)
    <2>1. Proves(d, state, account, signedIn, needsConnect)
      BY <1>3, <1>4, <1>6 DEF Proves
    <2> QED
      BY <1>5, <1>6, <2>1
  <1>9. \A t \in Slots : Stops(chains'[t]) <=> Stops(chains[t])
    BY <1>3, <1>5 DEF Stops
  <1>10. Honest(state, account, chains', signedIn, needsConnect, changes)
    BY <1>6, <1>7, <1>8, <1>9 DEF Honest, Idles
  <1>11. Accounted(state, account, chains', op, deferred, events, signedIn, reconciling, changes)
    BY <1>3, <1>5, MovedAccounted
  <1> QED
    BY <1>1, <1>10, <1>11 DEF IdGoal

\* A reconciliation that is not of this lifecycle ends; one of it, when overtaken,
\* leaves the change deferred.
LEMMA OvertakenId ==
    ASSUME Ground, NEW s \in Slots, chains[s].stage = "reconcile",
           chains' = [chains EXCEPT ![s] = IdleChain], deferred' = DeferredBy(chains[s]),
           reconciling' = IF chains[s].live THEN FALSE ELSE reconciling,
           UNCHANGED << view, op, needsConnect, provider >>
    PROVE  IdGoal
  <1>0. /\ state' = state /\ account' = account /\ op' = op /\ needsConnect' = needsConnect
        /\ changes' = changes /\ signedIn' = signedIn /\ events' = events
    BY DEF view, provider
  <1>1. OnceOwed(chains, op, deferred, events) /\ Owned(chains, op)
        /\ (\A t \in Slots : Waits(chains[t]) => reconciling /\ state.open)
        /\ changes # 0
    BY DEF Ground, IdHolds, Accounted, Calm
  <1>2. /\ HeldBy(state, account)
        /\ \A t \in Slots : Serves(chains[t], state, account, signedIn)
        /\ \A t \in Slots : Proves(chains[t], state, account, signedIn, needsConnect)
        /\ Idles(state, account, chains, signedIn, needsConnect, changes)
    BY DEF Ground, IdHolds, Honest
  <1>3. chains'[s] = IdleChain /\ \A t \in Slots \ {s} : chains'[t] = chains[t]
    BY OneNew DEF Ground
  <1>4. CASE ~chains[s].live
    <2>1. deferred' = deferred /\ reconciling' = reconciling /\ ~Waits(chains[s])
      BY <1>4 DEF DeferredBy, Waits
    <2>2. op.slot # s
      BY <1>1, NameAssumption DEF Owned, Stops
    <2>3. op' = IF op.slot = s THEN NoOp ELSE op
      BY <1>0, <2>2
    <2>4. ~(op.slot = s /\ op.changed)
      BY <1>1 DEF Owned, Stops
    <2>5. needsConnect =>
              /\ state.identity = None
              /\ state.mode = "authenticated" =>
                    \/ changes # 0 /\ signedIn = {}
                    \/ /\ state.phase \in {"closed", "signedOut"}
                       /\ \A t \in Slots \ {s} : ~Stops(chains[t])
      BY <1>2 DEF Idles
    <2> QED
      BY <1>0, <1>2, <2>1, <2>3, <2>4, <2>5, IdleId
  <1>5. CASE chains[s].live
    <2>1. Waits(chains[s])
      BY <1>5 DEF Waits
    <2>2. deferred' /\ ~reconciling' /\ events = 0 /\ ~op.changed
      BY <1>1, <1>5, <2>1 DEF DeferredBy, OnceOwed, NoneWaits
    <2>3. \A t \in Slots : ~Waits(chains'[t])
      BY <1>1, <1>3, <2>1, IdleHonest DEF OnceOwed
    <2>4. OnceOwed(chains', op', deferred', events')
      BY <1>0, <1>1, <2>2, <2>3 DEF OnceOwed, NoneWaits
    <2>5. Owned(chains', op')
      <3>1. op.slot # s
        BY <1>1, NameAssumption DEF Owned, Stops
      <3> QED
        BY <1>0, <1>1, <1>3, <3>1 DEF Owned
    <2>6. Accounted(state', account', chains', op', deferred', events', signedIn',
                    reconciling', changes')
      BY <1>0, <1>1, <2>2, <2>3, <2>4, <2>5 DEF Accounted, Owing
    <2>7. \A t \in Slots : Serves(chains'[t], state, account, signedIn)
      BY <1>2, <1>3, IdleHonest
    <2>8. \A t \in Slots : Proves(chains'[t], state, account, signedIn, needsConnect)
      BY <1>2, <1>3, IdleHonest
    <2>9. \A t \in Slots : Stops(chains'[t]) => Stops(chains[t])
      BY <1>3, IdleHonest
    <2>10. Honest(state, account, chains', signedIn, needsConnect, changes)
      BY <1>2, <2>7, <2>8, <2>9 DEF Honest, Idles
    <2> QED
      BY <1>0, <2>6, <2>10 DEF IdGoal
  <1> QED
    BY <1>4, <1>5

\* The account in use has its session: the view stays.
LEMMA AffirmedId ==
    ASSUME Ground, NEW s \in Slots, chains[s].stage = "reconcile", IsCurrent(s),
           chains[s].live, chains[s].at = "proved",
           chains' = [chains EXCEPT ![s] = IdleChain],
           state' = [state EXCEPT !.identity = chains[s].who], account' = chains[s].who,
           reconciling' = FALSE, UNCHANGED << op, deferred, needsConnect, provider >>
    PROVE  IdGoal
  <1>0. changes' = changes /\ signedIn' = signedIn /\ events' = events
    BY DEF provider
  <1>1. /\ HeldBy(state, account)
        /\ \A t \in Slots : Serves(chains[t], state, account, signedIn)
        /\ \A t \in Slots : Proves(chains[t], state, account, signedIn, needsConnect)
        /\ Idles(state, account, chains, signedIn, needsConnect, changes)
    BY DEF Ground, IdHolds, Honest
  <1>2. chains[s].who = account /\ account \in signedIn /\ account # None
    <2>1. Proves(chains[s], state, account, signedIn, needsConnect)
      BY <1>1
    <2>2. chains[s].who = account /\ account \in signedIn
      BY <2>1 DEF Proves, IsCurrent
    <2> QED
      BY <2>2, ModeFacts
  <1>3. state.mode = "authenticated"
    BY OtherChainsAreApart, ModeFacts DEF Ground, LInv
  <1>4. account' = account /\ ~needsConnect
    BY <1>1, <1>2 DEF Idles
  <1>5. /\ state'.identity = account /\ state'.mode = state.mode /\ state'.open = state.open
        /\ state'.tenants = state.tenants /\ state'.subs = state.subs
        /\ state'.stores = state.stores /\ state'.entries = state.entries
    BY <1>2, SameViews, ViewFields DEF Ground, IsView
  <1>6. Bare(state') <=> Bare(state)
    BY <1>5 DEF Bare
  <1>7. HeldBy(state', account)
    BY <1>1, <1>2, <1>3, <1>5, <1>6 DEF HeldBy, ListedBy
  <1>8. chains'[s] = IdleChain /\ \A t \in Slots \ {s} : chains'[t] = chains[t]
    BY OneNew DEF Ground
  <1>9. \A t \in Slots : Serves(chains[t], state', account, signedIn)
    <2>1. \A c : Looks(c, state, account, signedIn) => Looks(c, state', account, signedIn)
      BY <1>6 DEF Looks
    <2>2. \A c : Suits(c, state, account, signedIn) => Suits(c, state', account, signedIn)
      BY <1>3, <1>5, <2>1 DEF Suits
    <2> QED
      BY <1>1, <2>2 DEF Serves
  <1>10. \A t \in Slots : Serves(chains'[t], state', account, signedIn)
    BY <1>8, <1>9, IdleHonest
  <1>11. \A t \in Slots : Proves(chains'[t], state', account, signedIn, needsConnect)
    <2>1. \A t \in Slots : Proves(chains[t], state', account, signedIn, needsConnect)
      BY <1>1, <1>5 DEF Proves
    <2> QED
      BY <1>8, <2>1, IdleHonest
  <1>12. Honest(state', account, chains', signedIn, needsConnect, changes)
    BY <1>4, <1>7, <1>10, <1>11 DEF Honest, Idles
  <1>13. OnceOwed(chains, op, deferred, events) /\ Owned(chains, op) /\ changes # 0
    BY DEF Ground, IdHolds, Accounted, Calm
  <1>14. Waits(chains[s])
    BY DEF Waits
  <1>15. \A t \in Slots : ~Waits(chains'[t])
    BY <1>8, <1>13, <1>14, IdleHonest DEF OnceOwed
  <1>16. OnceOwed(chains', op, deferred, events)
    BY <1>13, <1>15 DEF OnceOwed, NoneWaits
  <1>17. Owned(chains', op)
    <2>1. op.slot # s \/ op.slot = None
      BY <1>13 DEF Owned, Stops
    <2>2. ~op.changed
      BY <1>13, <1>14 DEF OnceOwed, NoneWaits
    <2> QED
      BY <1>8, <1>13, <2>1, <2>2 DEF Owned
  <1>18. {account, state'.identity} \subseteq OrNone(signedIn)
    BY <1>2, <1>5 DEF OrNone
  <1>19. Accounted(state', account, chains', op, deferred, events, signedIn, FALSE, changes)
    BY <1>13, <1>15, <1>16, <1>17, <1>18 DEF Accounted
  <1> QED
    BY <1>0, <1>4, <1>12, <1>19 DEF IdGoal

LEMMA ReconciledId ==
    ASSUME Ground, NEW s \in Slots, Reconciled(s)
    PROVE  IdGoal
  <1> DEFINE overtaken == ~IsCurrent(s) \/ ~chains[s].live \/ ~state.open
  <1>1. /\ chains[s].stage = "reconcile"
        /\ reconciling' = IF chains[s].live THEN FALSE ELSE reconciling
        /\ UNCHANGED provider
    BY Zenon DEF Reconciled
  <1>2. \/ /\ chains' = [chains EXCEPT ![s] = IdleChain]
           /\ deferred' = DeferredBy(chains[s]) /\ UNCHANGED << view, op, needsConnect >>
        \/ /\ ~overtaken /\ chains[s].at = "proved"
           /\ chains' = [chains EXCEPT ![s] = IdleChain]
           /\ state' = [state EXCEPT !.identity = chains[s].who] /\ account' = chains[s].who
           /\ UNCHANGED << resources, op, deferred, needsConnect >>
        \/ ~overtaken /\ Rediscover(s, None, FALSE) /\ UNCHANGED << needsConnect, promises >>
        \/ ~overtaken /\ SettleSignedOut(s, Superseded) /\ op' = NoOp /\ UNCHANGED deferred
    BY Zenon DEF Reconciled
  <1>3. OnceOwed(chains, op, deferred, events) /\ changes # 0
    BY <1>1 DEF Ground, IdHolds, Accounted, Calm
  <1>4. ~overtaken => \A t \in Slots \ {s} : ~Waits(chains[t])
    BY <1>1, <1>3 DEF OnceOwed, Waits
  <1>5. CASE /\ chains' = [chains EXCEPT ![s] = IdleChain]
             /\ deferred' = DeferredBy(chains[s]) /\ UNCHANGED << view, op, needsConnect >>
    BY <1>1, <1>5, OvertakenId
  <1>6. CASE /\ ~overtaken /\ chains[s].at = "proved"
             /\ chains' = [chains EXCEPT ![s] = IdleChain]
             /\ state' = [state EXCEPT !.identity = chains[s].who]
             /\ account' = chains[s].who
             /\ UNCHANGED << resources, op, deferred, needsConnect >>
    BY <1>1, <1>6, AffirmedId
  <1>7. CASE ~overtaken /\ Rediscover(s, None, FALSE) /\ UNCHANGED << needsConnect, promises >>
    <2>1. needsConnect => signedIn = {}
      <3>1. Proves(chains[s], state, account, signedIn, needsConnect)
            /\ (needsConnect => account = None)
        BY DEF Ground, IdHolds, Honest, Idles
      <3> QED
        BY <1>1, <1>7, <3>1 DEF Proves, IsCurrent
    <2> QED
      BY <1>1, <1>3, <1>4, <1>7, <2>1, RediscoverId DEF provider
  <1>8. CASE ~overtaken /\ SettleSignedOut(s, Superseded) /\ op' = NoOp /\ UNCHANGED deferred
    <2>0. changes' = changes /\ signedIn' = signedIn /\ events' = events
      BY <1>1 DEF provider
    <2>1. /\ chains' = [Superseded EXCEPT ![s] = IdleChain] /\ state' = SignedOut
          /\ account' = None /\ needsConnect' = TRUE
      BY <1>8 DEF SettleSignedOut
    <2>2. chains'[s] = IdleChain /\ \A t \in Slots \ {s} : chains'[t] = Superseded[t]
      BY <2>1, OneNew DEF Ground
    <2>3. SignedOut.phase = "signedOut" /\ SignedOut.identity = None
          /\ SignedOut.mode = "authenticated"
      BY DEF SignedOut, Closed
    <2>4. \A t \in Slots : ~Stops(chains'[t]) /\ ~Waits(chains'[t])
      <3>1. \A t \in Slots : ~Stops(Superseded[t])
        BY OvertakenHonest
      <3>2. \A t \in Slots : Waits(Superseded[t]) => Waits(chains[t])
        BY OvertakenFacts DEF Ground, Waits
      <3>3. \A t \in Slots \ {s} : ~Waits(chains[t])
        BY <1>4, <1>8
      <3> QED
        BY <2>2, <3>1, <3>2, <3>3, IdleHonest
    <2>5. IdleChain.stage # "reconcile"
      BY DEF IdleChain
    <2>6. HeldBy(SignedOut, None) /\ Idles(SignedOut, None, chains', signedIn, TRUE, changes)
      BY <2>3, <2>4, EmptyIsBare DEF HeldBy, Idles
    <2>7. Honest(state', account', chains', signedIn', needsConnect', changes')
      BY <2>0, <2>1, <2>5, <2>6, IdleHonest, NewHonest
    <2>8. Waits(chains[s])
      BY <1>1, <1>8 DEF Waits
    <2>9. NoOp.slot = None /\ NoOp.changed = FALSE
      BY DEF NoOp
    <2>10. OnceOwed(chains', op', deferred', events') /\ Owned(chains', op')
      BY <1>3, <1>8, <2>0, <2>4, <2>8, <2>9 DEF OnceOwed, NoneWaits, Owned
    <2>11. {account', state'.identity} \subseteq OrNone(signedIn')
      BY <2>1, <2>3 DEF OrNone
    <2> QED
      BY <1>3, <2>0, <2>4, <2>7, <2>10, <2>11 DEF IdGoal, Accounted
  <1> QED
    BY <1>2, <1>5, <1>6, <1>7, <1>8

-----------------------------------------------------------------------------
(* The changes of the sessions.                                            *)

LEMMA ProviderEventId ==
    ASSUME Ground, NEW s \in Slots, ProviderEvent(s)
    PROVE  IdGoal
  <1>1. /\ events > 0 /\ events' = events - 1 /\ Free(s)
        /\ signedIn' = signedIn /\ changes' = changes
    BY DEF ProviderEvent
  <1>2. Accounted(state, account, chains, op, deferred, events, signedIn, reconciling, changes)
        /\ Honest(state, account, chains, signedIn, needsConnect, changes)
    BY DEF Ground, IdHolds
  <1>3. events # 0
    BY <1>1
  <1>4. events = 1 /\ ~deferred /\ ~op.changed /\ NoneWaits(chains) /\ changes # 0
    BY <1>2, <1>3 DEF Accounted, OnceOwed, Calm
  <1>5. events' = 0
    BY <1>1, <1>4
  <1>6. CASE /\ state.mode = "public" \/ needsConnect
             /\ UNCHANGED << view, chains, auth, promises >>
    <2>1. /\ state' = state /\ account' = account /\ chains' = chains /\ op' = op
          /\ deferred' = deferred /\ reconciling' = reconciling
          /\ needsConnect' = needsConnect
      BY <1>6 DEF view, auth
    <2>2. {account, state.identity} \subseteq OrNone(signedIn)
      BY <1>2, <1>6 DEF Honest, HeldBy, Idles, OrNone
    <2>3. OnceOwed(chains, op, deferred, 0)
      BY <1>2, <1>4 DEF Accounted, OnceOwed
    <2>4. Accounted(state, account, chains, op, deferred, 0, signedIn, reconciling, changes)
      BY <1>2, <1>4, <2>2, <2>3 DEF Accounted
    <2> QED
      BY <1>1, <1>2, <1>5, <2>1, <2>4 DEF IdGoal
  <1>7. CASE /\ op # NoOp /\ op' = [op EXCEPT !.changed = TRUE]
             /\ UNCHANGED << view, chains, deferred, reconciling, needsConnect, promises >>
    <2>1. /\ state' = state /\ account' = account /\ chains' = chains
          /\ deferred' = deferred /\ reconciling' = reconciling
          /\ needsConnect' = needsConnect
      BY <1>7 DEF view
    <2>2. IsOp(op)
      BY DEF Ground, LInv, QInv, PInv, Shapes
    <2>3. op'.changed = TRUE /\ op'.slot = op.slot
      BY <1>7, <2>2 DEF IsOp, NoOp
    <2>4. op.slot # None
      <3>1. op.slot = None => op = NoOp
        BY <1>2, <1>4 DEF Accounted, Owned
      <3> QED
        BY <1>7, <3>1
    <2>5. OnceOwed(chains, op', deferred, 0)
      BY <1>2, <1>4, <2>3 DEF Accounted, OnceOwed
    <2>6. Owned(chains, op')
      BY <1>2, <2>3, <2>4 DEF Accounted, Owned
    <2>7. Accounted(state, account, chains, op', deferred, 0, signedIn, reconciling, changes)
      BY <1>2, <1>4, <2>3, <2>5, <2>6 DEF Accounted, Owing
    <2> QED
      BY <1>1, <1>2, <1>5, <2>1, <2>7 DEF IdGoal
  <1>8. CASE /\ ~needsConnect /\ state.open /\ Reconcile(s, state, resources, FALSE)
             /\ UNCHANGED << needsConnect, promises >>
    <2>1. HeldBy(state, account) /\ \A t \in Slots : Serves(chains[t], state, account, signedIn)
      BY <1>2 DEF Honest
    <2> QED
      BY <1>1, <1>4, <1>5, <1>8, <2>1, ReconcileId
  <1>9. CASE /\ state' = Closed /\ account' = None /\ chains' = Superseded
             /\ op' = NoOp /\ deferred' = FALSE
    <2>1. Bare(Closed) /\ Closed.identity = None /\ Closed.phase = "closed"
      BY EmptyIsBare, EmptyIdentity DEF Closed
    <2> QED
      BY <1>1, <1>4, <1>5, <1>9, <2>1, ForgottenId
  <1>10. \/ /\ state.mode = "public" \/ needsConnect
            /\ UNCHANGED << view, chains, auth, promises >>
         \/ /\ op # NoOp /\ op' = [op EXCEPT !.changed = TRUE]
            /\ UNCHANGED << view, chains, deferred, reconciling, needsConnect, promises >>
         \/ /\ ~needsConnect /\ state.open /\ Reconcile(s, state, resources, FALSE)
            /\ UNCHANGED << needsConnect, promises >>
         \/ /\ state' = Closed /\ account' = None /\ chains' = Superseded
            /\ op' = NoOp /\ deferred' = FALSE
    BY Zenon DEF ProviderEvent
  <1> QED
    BY <1>6, <1>7, <1>8, <1>9, <1>10

\* Before the first change, the account is signed in, and nothing waits.
LEMMA CalmFacts ==
    ASSUME Ground, changes = 0
    PROVE  /\ {account, state.identity} \subseteq OrNone(signedIn)
           /\ Calm(chains, op, deferred, events) /\ NoneWaits(chains)
  <1>1. Calm(chains, op, deferred, events)
        /\ ({account, state.identity} \subseteq OrNone(signedIn)
               \/ Owing(chains, op, deferred, events))
    BY DEF Ground, IdHolds, Accounted
  <1>2. NoneWaits(chains)
    BY <1>1 DEF Calm, NoneWaits, Waits
  <1> QED
    BY <1>1, <1>2 DEF Calm, Owing

\* The first change puts an event on its way, whether a chain ends with it or not.
LEMMA FirstChangeId ==
    ASSUME Ground, changes = 0, changes' = 1, events' = 1, None \notin signedIn',
           NEW s \in Slots, chains' \in {chains, [chains EXCEPT ![s] = IdleChain]},
           state' = state, account' = account, op' = op, Owned(chains', op'),
           deferred' = deferred, needsConnect' = needsConnect
    PROVE  IdGoal
  <1>1. /\ {account, state.identity} \subseteq OrNone(signedIn)
        /\ Calm(chains, op, deferred, events) /\ NoneWaits(chains)
    BY CalmFacts
  <1>2. \A t \in Slots : chains'[t] \in {chains[t], IdleChain}
    <2>1. CASE chains' = chains
      BY <2>1
    <2>2. CASE chains' = [chains EXCEPT ![s] = IdleChain]
      BY <2>2, OneNew DEF Ground
    <2> QED
      BY <2>1, <2>2
  <1>3. /\ HeldBy(state, account)
        /\ \A t \in Slots : Serves(chains[t], state, account, signedIn)
        /\ Idles(state, account, chains, signedIn, needsConnect, changes)
        /\ op.changed \in BOOLEAN
    BY DEF Ground, IdHolds, Honest, Accounted, OnceOwed
  <1>4. \A t \in Slots : Serves(chains'[t], state, account, signedIn')
    <2>1. \A c : Looks(c, state, account, signedIn) => Looks(c, state, account, signedIn')
      BY <1>1 DEF Looks, OrNone
    <2>2. \A c : Suits(c, state, account, signedIn) => Suits(c, state, account, signedIn')
      BY <2>1 DEF Suits
    <2>3. \A t \in Slots : Serves(chains[t], state, account, signedIn')
      BY <1>3, <2>2 DEF Serves
    <2> QED
      BY <1>2, <2>3, IdleHonest
  <1>5. IdleChain.stage # "reconcile"
    BY DEF IdleChain
  <1>6. \A t \in Slots : chains'[t].stage # "reconcile"
    BY <1>1, <1>2, <1>5 DEF Calm
  <1>7. \A t \in Slots : Proves(chains'[t], state, account, signedIn', needsConnect)
    BY <1>6 DEF Proves
  <1>8. Idles(state, account, chains', signedIn', needsConnect, 1)
    BY <1>2, <1>3, IdleHonest DEF Idles
  <1>9. Honest(state', account', chains', signedIn', needsConnect', changes')
    BY <1>3, <1>4, <1>7, <1>8 DEF Honest
  <1>10. \A t \in Slots : ~Waits(chains'[t])
    BY <1>6 DEF Waits
  <1>11. OnceOwed(chains', op', deferred', events')
    BY <1>1, <1>3, <1>10 DEF OnceOwed, NoneWaits, Calm
  <1>12. Accounted(state', account', chains', op', deferred', events', signedIn',
                   reconciling', changes')
    BY <1>10, <1>11 DEF Accounted, Owing
  <1> QED
    BY <1>9, <1>12 DEF IdGoal

LEMMA SessionsChangeId ==
    ASSUME Ground, NEW a, SessionsChange(a), None \notin signedIn', changes = 0
    PROVE  IdGoal
  <1>1. /\ state' = state /\ account' = account /\ chains' = chains /\ op' = op
        /\ deferred' = deferred /\ needsConnect' = needsConnect
        /\ changes' = 1 /\ events' = 1
    <2>1. events = 0
      BY CalmFacts DEF Calm
    <2> QED
      BY <2>1 DEF SessionsChange, view, auth
  <1>2. Owned(chains', op')
    BY <1>1 DEF Ground, IdHolds, Accounted
  <1>3. CASE Slots = {}
    <2>1. /\ HeldBy(state, account)
          /\ Idles(state, account, chains, signedIn, needsConnect, changes)
          /\ OnceOwed(chains, op, deferred, events)
      BY DEF Ground, IdHolds, Honest, Accounted
    <2>2. Idles(state, account, chains, signedIn', needsConnect, 1)
      BY <2>1 DEF Idles
    <2>3. Calm(chains, op, deferred, events)
      BY CalmFacts
    <2>4. OnceOwed(chains, op, deferred, 1)
      BY <1>3, <2>1, <2>3 DEF OnceOwed, NoneWaits, Calm
    <2> QED
      BY <1>1, <1>2, <1>3, <2>1, <2>2, <2>4 DEF IdGoal, Honest, Accounted, Owing
  <1>4. CASE Slots # {}
    BY <1>1, <1>2, <1>4, FirstChangeId
  <1> QED
    BY <1>3, <1>4

LEMMA PromptGrantedId ==
    ASSUME Ground, NEW s \in Slots, PromptGranted(s), None \notin signedIn', changes = 0
    PROVE  IdGoal
  <1>1. /\ {account, state.identity} \subseteq OrNone(signedIn)
        /\ Calm(chains, op, deferred, events) /\ NoneWaits(chains)
    BY CalmFacts
  <1>2. events' = 1 /\ changes' = 1 /\ chains[s].at = "prompt"
    BY <1>1 DEF PromptGranted, Calm
  <1>3. Owned(chains, op) /\ op.changed \in BOOLEAN /\ chains[s].stage # "reconcile"
    BY <1>1 DEF Ground, IdHolds, Accounted, OnceOwed, Calm
  <1>4. CASE IsCurrent(s)
    <2>1. PICK a \in IF chains[s].who = None THEN Accounts ELSE {chains[s].who} :
             signedIn' = signedIn \cup {a} /\ Granted(s, a)
      BY <1>4, Zenon DEF PromptGranted
    <2>2. a # None /\ a \in signedIn' /\ (chains[s].who # None => a = chains[s].who)
      BY <2>1, NameAssumption
    <2>3. /\ Honest(state', account', chains', signedIn', needsConnect', changes')
          /\ \A t \in Slots : /\ chains'[t].stage = chains[t].stage
                              /\ chains'[t].cur = chains[t].cur
                              /\ chains'[t].live = chains[t].live
                              /\ chains'[t].asks = chains[t].asks
      BY <1>2, <1>3, <1>4, <2>1, <2>2, GrantedHonest
    <2>4. op' = op /\ deferred' = deferred /\ reconciling' = reconciling
      BY <2>1 DEF Granted, auth
    <2>5. \A t \in Slots : /\ ~Waits(chains'[t])
                           /\ Stops(chains'[t]) <=> Stops(chains[t])
      BY <1>1, <2>3 DEF NoneWaits, Waits, Stops
    <2>6. OnceOwed(chains', op', deferred', events') /\ Owned(chains', op')
      BY <1>1, <1>2, <1>3, <2>3, <2>4, <2>5 DEF OnceOwed, NoneWaits, Calm, Owned
    <2> QED
      BY <1>2, <2>3, <2>5, <2>6 DEF IdGoal, Accounted, Owing
  <1>5. CASE ~IsCurrent(s)
    <2>1. Settle(s, state, resources)
      BY <1>5, Zenon DEF PromptGranted
    <2>2. op.slot # s /\ ~op.changed
      <3>1. op.slot # s
        BY <1>3, <1>5, NameAssumption DEF Owned, Stops, IsCurrent
      <3> QED
        BY <1>1, <3>1 DEF Calm
    <2>3. /\ state' = state /\ chains' = [chains EXCEPT ![s] = IdleChain]
          /\ op' = op /\ UNCHANGED << account, deferred, reconciling, needsConnect >>
      BY <2>1, <2>2, Zenon DEF Settle
    <2>4. Owned(chains', op')
      <3>1. \A t \in Slots \ {s} : chains'[t] = chains[t]
        BY <2>3, OneNew DEF Ground
      <3> QED
        BY <1>3, <2>2, <2>3, <3>1 DEF Owned
    <2> QED
      BY <1>2, <2>3, <2>4, FirstChangeId
  <1> QED
    BY <1>4, <1>5

LEMMA AnswerId ==
    ASSUME Ground, NEW s \in Slots, Answer(s) \/ PromptRejected(s)
    PROVE  IdGoal
  BY SilentSessionId, NoSilentSessionId, EndsId, DiscoverListedId, TenantListedId,
     SubscriptionListedId, PageListedId, ProvedId, ReconciledId DEF Answer

\* How often the sessions changed only grows.
LEMMA NextChanges ==
    ASSUME [Next]_vars, changes \in Nat
    PROVE  /\ changes' \in Nat /\ changes <= changes'
           /\ \A a : SessionsChange(a) => changes' = changes + 1
           /\ \A s : PromptGranted(s) => changes' = changes + 1
  <1>1. ASSUME NEW s \in Slots, UserStep(s) \/ Answer(s) \/ PromptRejected(s)
        PROVE  changes' = changes
    <2>1. UNCHANGED provider
      BY <1>1, ProviderStays
    <2> QED
      BY <2>1 DEF provider
  <1>2. Instant => changes' = changes
    BY ProviderStays DEF provider
  <1>3. \A s : ProviderEvent(s) => changes' = changes
    BY DEF ProviderEvent
  <1>4. /\ \A a : SessionsChange(a) => changes' = changes + 1
        /\ \A s : PromptGranted(s) => changes' = changes + 1
    BY DEF SessionsChange, PromptGranted
  <1>5. changes' = changes \/ changes' = changes + 1
    BY <1>1, <1>2, <1>3, <1>4 DEF Next, Prompt, vars, provider
  <1> QED
    BY <1>4, <1>5

LEMMA NextId ==
    ASSUME ActsOnWhatIsShown, LInv, NInv, IdInv, [Next]_vars
    PROVE  IdInv'
  <1>1. /\ changes' \in Nat /\ changes <= changes'
        /\ \A a : SessionsChange(a) => changes' = changes + 1
        /\ \A s : PromptGranted(s) => changes' = changes + 1
    BY NextChanges DEF IdInv
  <1> SUFFICES ASSUME changes' <= 1 PROVE IdGoal
    BY <1>1 DEF IdInv, IdHolds, IdGoal
  <1>2. changes \in Nat /\ changes <= 1
    BY <1>1 DEF IdInv
  <1>3. Ground
    BY <1>2 DEF IdInv, Ground
  <1>4. None \notin signedIn'
    BY NextSignedIn DEF NInv
  <1>5. ASSUME NEW s \in Slots, UserStep(s) PROVE IdGoal
    BY <1>3, <1>5, UserId
  <1>6. ASSUME NEW s \in Slots, Answer(s) \/ PromptRejected(s) PROVE IdGoal
    BY <1>3, <1>6, AnswerId
  <1>7. ASSUME NEW s \in Slots, PromptGranted(s) PROVE IdGoal
    <2>1. changes = 0
      BY <1>1, <1>2, <1>7
    <2> QED
      BY <1>3, <1>4, <1>7, <2>1, PromptGrantedId
  <1>8. ASSUME NEW s \in Slots, ProviderEvent(s) PROVE IdGoal
    BY <1>3, <1>8, ProviderEventId
  <1>9. ASSUME Instant PROVE IdGoal
    BY <1>3, <1>9, InstantId
  <1>10. ASSUME NEW a \in Accounts, SessionsChange(a) PROVE IdGoal
    <2>1. changes = 0
      BY <1>1, <1>2, <1>10
    <2> QED
      BY <1>3, <1>4, <1>10, <2>1, SessionsChangeId
  <1>11. ASSUME UNCHANGED vars PROVE IdGoal
    BY <1>3, <1>11 DEF vars, view, auth, provider, Ground, IdHolds, IdGoal
  <1> QED
    BY <1>5, <1>6, <1>7, <1>8, <1>9, <1>10, <1>11 DEF Next, Prompt

(* For any hierarchy, pages and number of requests under way, while the     *)
(* user acts on what the browser shows: up to the first change of the       *)
(* provider's sessions and after it, everything listed, and every answer    *)
(* that may still write, is of the account in use; and the change is owed   *)
(* in exactly one place until it is applied (discover, runInteractive,      *)
(* authenticationChanged, reconcileDeferredAuthentication).                 *)
THEOREM AccountIsHonest == ActsOnWhatIsShown => (Spec => []IdInv)
  <1> SUFFICES ASSUME ActsOnWhatIsShown PROVE Spec => []IdInv
    OBVIOUS
  <1>1. Init => IdInv
    <2> SUFFICES ASSUME Init PROVE IdHolds /\ changes = 0
      BY DEF IdInv
    <2>1. /\ state = Closed /\ account = None /\ op = NoOp /\ deferred = FALSE
          /\ needsConnect = TRUE /\ events = 0 /\ changes = 0
          /\ \A t \in Slots : chains[t] = IdleChain
      BY DEF Init
    <2>2. Closed.mode = "authenticated" /\ Closed.identity = None /\ Closed.phase = "closed"
      BY DEF Closed
    <2>3. IdleChain.stage # "reconcile" /\ NoOp.slot = None /\ NoOp.changed = FALSE
      BY DEF IdleChain, NoOp
    <2>4. HeldBy(state, account)
      BY <2>1, <2>2, EmptyIsBare DEF HeldBy
    <2>5. \A t \in Slots : /\ Serves(chains[t], state, account, signedIn) /\ ~Stops(chains[t])
                           /\ Proves(chains[t], state, account, signedIn, needsConnect)
                           /\ ~Waits(chains[t])
      BY <2>1, IdleHonest
    <2>6. Idles(state, account, chains, signedIn, needsConnect, changes)
      BY <2>1, <2>2, <2>5 DEF Idles
    <2>7. Honest(state, account, chains, signedIn, needsConnect, changes)
      BY <2>4, <2>5, <2>6 DEF Honest
    <2>8. OnceOwed(chains, op, deferred, events) /\ Owned(chains, op)
      BY <2>1, <2>3, <2>5 DEF OnceOwed, NoneWaits, Owned
    <2>9. Calm(chains, op, deferred, events)
      BY <2>1, <2>3 DEF Calm
    <2>10. {account, state.identity} \subseteq OrNone(signedIn)
      BY <2>1, <2>2 DEF OrNone
    <2> QED
      BY <2>1, <2>5, <2>7, <2>8, <2>9, <2>10 DEF IdHolds, Accounted
  <1>2. LInv /\ NInv /\ IdInv /\ [Next]_vars => IdInv'
    BY NextId
  <1> QED
    BY <1>1, <1>2, ListingsCohere, PlacesNest, PTL DEF Spec

(* Up to the first change of sessions and after it, everything listed was   *)
(* listed with the session of the identity on display, whichever requests,  *)
(* prompts and late answers came between (discover, selectTenant,           *)
(* applyItems, reconcileDeferredAuthentication).                            *)
THEOREM ListedByOneIdentity ==
    ActsOnWhatIsShown => (Spec => [](changes <= 1 => ListedByIdentity))
  <1> SUFFICES ASSUME ActsOnWhatIsShown PROVE Spec => [](changes <= 1 => ListedByIdentity)
    OBVIOUS
  <1>1. IdInv => (changes <= 1 => ListedByIdentity)
    <2> SUFFICES ASSUME HeldBy(state, account) PROVE ListedByIdentity
      BY DEF IdInv, IdHolds, Honest
    <2>1. DOMAIN <<>> = {}
      OBVIOUS
    <2> QED
      BY <2>1 DEF HeldBy, Bare, ListedBy, ListedByIdentity
  <1> QED
    BY <1>1, AccountIsHonest, PTL

(* Up to the first change of sessions and after it, once its event is       *)
(* delivered and nothing runs: the identity on display is signed in, or the *)
(* change waits for the next request, or only Connect is left to do         *)
(* (authenticationChanged, runInteractive, reconcileDeferredAuthentication).*)
THEOREM SignOutIsHonoured ==
    ActsOnWhatIsShown => (Spec => [](changes <= 1 => SignOutHonoured))
  <1> SUFFICES ASSUME ActsOnWhatIsShown PROVE Spec => [](changes <= 1 => SignOutHonoured)
    OBVIOUS
  <1>1. IdInv => (changes <= 1 => SignOutHonoured)
    <2> SUFFICES ASSUME IdHolds, Quiet, ~deferred PROVE state.identity \in OrNone(signedIn)
      BY DEF IdInv, SignOutHonoured
    <2>1. /\ Owned(chains, op) /\ events = 0
          /\ {account, state.identity} \subseteq OrNone(signedIn)
                \/ Owing(chains, op, deferred, events)
      BY DEF IdHolds, Accounted, Quiet
    <2>2. ~op.changed
      BY <2>1 DEF Owned, Stops, Quiet
    <2>3. NoneWaits(chains)
      BY DEF NoneWaits, Waits, Quiet
    <2> QED
      BY <2>1, <2>2, <2>3 DEF Owing
  <1> QED
    BY <1>1, AccountIsHonest, PTL

=============================================================================
