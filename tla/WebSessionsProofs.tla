-------------------------- MODULE WebSessionsProofs --------------------------
(***************************************************************************)
(* For any number of sessions, request threads, directories and ticks, and *)
(* whichever requests overlap: no directory of the web server is lost.     *)
(***************************************************************************)
EXTENDS WebSessions, TLAPS

-----------------------------------------------------------------------------
(* The inductive invariant.  NoDirectoryIsLost is not inductive: a request *)
(* that is only about to answer would count as a holder and then let go.   *)

\* The request will still put its own directory in the store, or remove it.
WillKeep(r) == \/ req[r].pc \in {"work", "get", "dirs", "set"}
               \/ req[r].pc = "remove" /\ req[r].then \in {"dirs", "set"}

Held(d) == \E r \in Requests : \/ req[r].dir = d /\ WillKeep(r)
                               \/ d \in req[r].stale /\ req[r].pc = "remove"
Stored(ss, d) == \E s \in Sessions : d \in ss[s].dirs

\* Only uploads and downloads make a directory, and an upload writes the store
\* without reading it first.
KindsOfRequest ==
    \A r \in Requests :
      /\ req[r].dir # Local <=> req[r].kind \in {"upload", "fetch"}
      /\ req[r].pc \in {"get", "dirs"} \/ req[r].then = "dirs" => req[r].kind # "upload"

WInv == /\ TypeOK /\ KindsOfRequest
        /\ \A d \in disk : Stored(sessions, d) \/ retired[d] # Never \/ Held(d)

LEMMA IdleIsRequest ==
    /\ Idle \in Request /\ Idle.dir = Local /\ Idle.kind = "find"
    /\ Idle.pc = "idle" /\ Idle.then = "idle"
  <1>1. (CHOOSE s \in Sessions : TRUE) \in Sessions
    BY SessionsAssumption
  <1> QED
    BY <1>1 DEF Idle, Request, Kinds, Local

LEMMA DirsAreNumbers == Local \notin Dirs /\ Dirs \subseteq Nat
  BY BoundsAssumption DEF Dirs, Local

LEMMA Init_WInv == Init => WInv
  <1> SUFFICES ASSUME Init PROVE WInv
    OBVIOUS
  <1>1. NoEntry \in Entry
    BY DEF NoEntry, Entry
  <1>2. TypeOK
    BY <1>1, IdleIsRequest, BoundsAssumption DEF Init, TypeOK
  <1>3. KindsOfRequest
    BY IdleIsRequest DEF Init, KindsOfRequest
  <1> QED
    BY <1>2, <1>3 DEF Init, WInv

-----------------------------------------------------------------------------
(* The helpers under the lock.                                             *)

\* What expiry retires is retired at a real time.
LEMMA RetiredByExpiryIsRetired ==
    ASSUME now \in Nat, NEW ss \in [Sessions -> Entry], NEW rt \in [Dirs -> Nat \cup {Never}],
           NEW d \in Dirs
    PROVE  /\ RetiredByExpiry(ss, rt)[d] \in Nat \cup {Never}
           /\ rt[d] # Never => RetiredByExpiry(ss, rt)[d] # Never
           /\ \A s \in Expired(ss) : d \in ss[s].dirs => RetiredByExpiry(ss, rt)[d] # Never
  <1>1. CASE \E s \in Expired(ss) : d \in ss[s].dirs
    <2> DEFINE x == CHOOSE s \in Expired(ss) : d \in ss[s].dirs
               base == IF rt[d] = Never THEN now ELSE rt[d]
    <2>1. x \in Sessions
      BY <1>1 DEF Expired
    <2>2. ss[x].ts \in Nat /\ base \in Nat
      BY <2>1 DEF Entry
    <2>3. RetiredByExpiry(ss, rt)[d] = Min2(base, ss[x].ts)
      BY <1>1 DEF RetiredByExpiry
    <2> HIDE DEF x, base
    <2>4. RetiredByExpiry(ss, rt)[d] \in Nat
      BY <2>2, <2>3 DEF Min2
    <2> QED
      BY <2>4 DEF Never
  <1>2. CASE ~\E s \in Expired(ss) : d \in ss[s].dirs
    BY <1>2 DEF RetiredByExpiry
  <1> QED
    BY <1>1, <1>2

\* Expiring sessions and retired directories loses none: each is still in the
\* store, still retired, or handed to the caller.
LEMMA CleanupLosesNothing ==
    ASSUME now \in Nat, NEW ss \in [Sessions -> Entry], NEW rt \in [Dirs -> Nat \cup {Never}]
    PROVE  /\ CleanupSessions(ss) \in [Sessions -> Entry]
           /\ CleanupRetired(ss, rt) \in [Dirs -> Nat \cup {Never}]
           /\ Stale(ss, rt) \subseteq Dirs
           /\ \A d \in Dirs : Stored(ss, d) \/ rt[d] # Never =>
                \/ Stored(CleanupSessions(ss), d)
                \/ CleanupRetired(ss, rt)[d] # Never
                \/ d \in Stale(ss, rt)
  <1>1. CleanupSessions(ss) \in [Sessions -> Entry]
    BY DEF CleanupSessions, NoEntry, Entry
  <1>2. CleanupRetired(ss, rt) \in [Dirs -> Nat \cup {Never}]
    <2>1. \A d \in Dirs : RetiredByExpiry(ss, rt)[d] \in Nat \cup {Never}
      BY RetiredByExpiryIsRetired
    <2> QED
      BY <2>1 DEF CleanupRetired
  <1>3. Stale(ss, rt) \subseteq Dirs
    BY DEF Stale
  <1>4. ASSUME NEW d \in Dirs, Stored(ss, d) \/ rt[d] # Never, d \notin Stale(ss, rt),
               CleanupRetired(ss, rt)[d] = Never
        PROVE  Stored(CleanupSessions(ss), d)
    <2>1. RetiredByExpiry(ss, rt)[d] = Never
      BY <1>4 DEF CleanupRetired
    <2>2. rt[d] = Never /\ \A s \in Expired(ss) : d \notin ss[s].dirs
      BY <2>1, RetiredByExpiryIsRetired
    <2>3. PICK s \in Sessions : d \in ss[s].dirs
      BY <1>4, <2>2 DEF Stored
    <2> QED
      BY <2>2, <2>3 DEF Stored, CleanupSessions
  <1> QED
    BY <1>1, <1>2, <1>3, <1>4

-----------------------------------------------------------------------------
(* One lemma per action.                                                   *)

\* A step of one request that leaves the store alone keeps what is held,
\* except for what it takes off the disk.
LEMMA RequestStep ==
    ASSUME WInv, NEW r \in Requests, NEW q \in Request,
           UNCHANGED << now, sessions, retired, made >>,
           req' = [req EXCEPT ![r] = q], disk' \subseteq disk,
           q.dir # Local <=> q.kind \in {"upload", "fetch"},
           q.pc \in {"get", "dirs"} \/ q.then = "dirs" => q.kind # "upload",
           \A d \in disk' :
             \/ req[r].dir = d /\ WillKeep(r)
             \/ d \in req[r].stale /\ req[r].pc = "remove"
             => \/ q.dir = d /\ \/ q.pc \in {"work", "get", "dirs", "set"}
                                \/ q.pc = "remove" /\ q.then \in {"dirs", "set"}
                \/ d \in q.stale /\ q.pc = "remove"
    PROVE  WInv'
  <1>1. req'[r] = q /\ \A p \in Requests \ {r} : req'[p] = req[p]
    BY DEF WInv, TypeOK
  <1>2. TypeOK'
    BY DEF WInv, TypeOK
  <1>3. KindsOfRequest'
    BY <1>1 DEF WInv, KindsOfRequest
  <1>4. ASSUME NEW d \in disk', Held(d) PROVE Held(d)'
    <2>1. PICK p \in Requests : \/ req[p].dir = d /\ WillKeep(p)
                                \/ d \in req[p].stale /\ req[p].pc = "remove"
      BY <1>4 DEF Held
    <2>2. CASE p = r
      BY <1>1, <2>1, <2>2 DEF Held, WillKeep
    <2>3. CASE p # r
      BY <1>1, <2>1, <2>3 DEF Held, WillKeep
    <2> QED
      BY <2>2, <2>3
  <1>5. \A d \in disk' : (Stored(sessions, d) \/ retired[d] # Never \/ Held(d))'
    BY <1>4 DEF WInv, Stored
  <1> QED
    BY <1>2, <1>3, <1>5 DEF WInv

LEMMA BeginStep ==
    ASSUME WInv, NEW r \in Requests, NEW kind \in Kinds, NEW sid \in Sessions,
           Begin(r, kind, sid)
    PROVE  WInv'
  <1> DEFINE dir == IF kind \in {"upload", "fetch"} THEN made + 1 ELSE Local
             first == IF kind = "find" THEN "get" ELSE "work"
             q == [Idle EXCEPT !.kind = kind, !.sid = sid, !.dir = dir, !.pc = first]
  <1>1. /\ req' = [req EXCEPT ![r] = q] /\ UNCHANGED << now, sessions, retired >>
        /\ req[r].pc = "idle"
    BY DEF Begin, At
  <1>2. /\ made' \in 0 .. MaxDirs /\ disk' \subseteq Dirs /\ dir \in Dirs \cup {Local}
        /\ disk' \subseteq disk \cup {dir} /\ (dir # Local <=> kind \in {"upload", "fetch"})
        /\ disk \subseteq disk'
    <2>1. CASE kind \in {"upload", "fetch"}
      BY <2>1, BoundsAssumption DEF Begin, WInv, TypeOK, Dirs, Local
    <2>2. CASE kind \notin {"upload", "fetch"}
      BY <2>2 DEF Begin, WInv, TypeOK
    <2> QED
      BY <2>1, <2>2
  <1>3. first \in {"get", "work"} /\ (first = "get" => kind = "find")
    OBVIOUS
  <1> HIDE DEF dir, first
  <1>4. /\ q \in Request /\ q.dir = dir /\ q.kind = kind /\ q.pc = first
        /\ q.then = "idle"
    BY <1>2, <1>3, IdleIsRequest DEF Request
  <1> HIDE DEF q
  <1>5. req'[r] = q /\ \A p \in Requests \ {r} : req'[p] = req[p]
    BY <1>1 DEF WInv, TypeOK
  <1>6. TypeOK'
    BY <1>1, <1>2, <1>4 DEF WInv, TypeOK
  <1>7. KindsOfRequest'
    BY <1>2, <1>3, <1>4, <1>5 DEF WInv, KindsOfRequest
  <1>8. ASSUME NEW d \in disk' PROVE (Stored(sessions, d) \/ retired[d] # Never \/ Held(d))'
    <2>1. CASE d = dir
      BY <1>3, <1>4, <1>5, <2>1 DEF Held, WillKeep
    <2>2. CASE d # dir
      <3>1. Stored(sessions, d) \/ retired[d] # Never \/ Held(d)
        BY <1>2, <2>2 DEF WInv
      <3>2. Held(d) => Held(d)'
        BY <1>1, <1>5 DEF Held, WillKeep
      <3> QED
        BY <1>1, <3>1, <3>2 DEF Stored
    <2> QED
      BY <2>1, <2>2
  <1> QED
    BY <1>6, <1>7, <1>8 DEF WInv

LEMMA WorkDoneStep == ASSUME WInv, NEW r \in Requests, WorkDone(r) PROVE WInv'
  <1> DEFINE next == IF req[r].kind \in {"upload", "paths"} THEN "set" ELSE "get"
             q == [req[r] EXCEPT !.pc = next]
  <1>1. /\ req' = [req EXCEPT ![r] = q] /\ disk' = disk
        /\ UNCHANGED << now, sessions, retired, made >> /\ req[r].pc = "work"
    BY DEF WorkDone, At
  <1>2. next \in {"set", "get"} /\ (next = "get" => req[r].kind # "upload")
    OBVIOUS
  <1> HIDE DEF next
  <1>3. /\ q \in Request /\ q.pc = next /\ q.dir = req[r].dir /\ q.kind = req[r].kind
        /\ q.then = req[r].then
    BY <1>2 DEF WInv, TypeOK, Request
  <1> HIDE DEF q
  <1>4. /\ req[r].dir # Local <=> q.kind \in {"upload", "fetch"}
        /\ req[r].then = "dirs" => q.kind # "upload"
    BY <1>3 DEF WInv, KindsOfRequest
  <1> QED
    BY <1>1, <1>2, <1>3, <1>4, RequestStep

LEMMA WorkFailsStep == ASSUME WInv, NEW r \in Requests, WorkFails(r) PROVE WInv'
  <1>1. /\ req' = [req EXCEPT ![r] = Idle] /\ disk' = disk \ {req[r].dir}
        /\ UNCHANGED << now, sessions, retired, made >> /\ req[r].pc = "work"
    BY DEF WorkFails, At
  <1> QED
    BY <1>1, IdleIsRequest, RequestStep

LEMMA ReadUploadDirsStep == ASSUME WInv, NEW r \in Requests, ReadUploadDirs(r) PROVE WInv'
  <1> DEFINE read == sessions[req[r].sid].dirs
             q == [req[r] EXCEPT !.dirs = read, !.pc = "set"]
  <1>1. /\ req' = [req EXCEPT ![r] = q] /\ disk' = disk
        /\ UNCHANGED << now, sessions, retired, made >> /\ req[r].pc = "dirs"
    BY DEF ReadUploadDirs, At
  <1>2. req[r] \in Request /\ read \in SUBSET Dirs
    BY DEF WInv, TypeOK, Request, Entry
  <1> HIDE DEF read
  <1>3. /\ q \in Request /\ q.pc = "set" /\ q.dir = req[r].dir /\ q.kind = req[r].kind
        /\ q.then = req[r].then
    BY <1>2 DEF Request
  <1> HIDE DEF q
  <1>4. /\ req[r].dir # Local <=> q.kind \in {"upload", "fetch"}
        /\ req[r].then = "dirs" => q.kind # "upload"
    BY <1>3 DEF WInv, KindsOfRequest
  <1> QED
    BY <1>1, <1>3, <1>4, RequestStep

LEMMA RemoveUploadDirsStep == ASSUME WInv, NEW r \in Requests, RemoveUploadDirs(r) PROVE WInv'
  <1> DEFINE q == IF req[r].then = "idle" THEN Idle
                  ELSE [req[r] EXCEPT !.pc = req[r].then, !.stale = {}]
  <1>1. /\ req' = [req EXCEPT ![r] = q] /\ disk' = disk \ req[r].stale
        /\ UNCHANGED << now, sessions, retired, made >> /\ req[r].pc = "remove"
    BY DEF RemoveUploadDirs, At
  <1>2. req[r] \in Request
    BY DEF WInv, TypeOK
  <1>3. CASE req[r].then = "idle"
    <2>1. q = Idle
      BY <1>3
    <2> HIDE DEF q
    <2> QED
      BY <1>1, <1>3, <2>1, IdleIsRequest, RequestStep DEF WillKeep
  <1>4. CASE req[r].then # "idle"
    <2>1. q = [req[r] EXCEPT !.pc = req[r].then, !.stale = {}]
      BY <1>4
    <2> HIDE DEF q
    <2>2. /\ q \in Request /\ q.pc = req[r].then /\ q.dir = req[r].dir /\ q.kind = req[r].kind
          /\ q.then = req[r].then /\ q.pc \in {"dirs", "set", "found"}
      BY <1>2, <1>4, <2>1 DEF Request
    <2>3. q.then = "dirs" => q.kind # "upload"
      BY <2>2 DEF WInv, KindsOfRequest
    <2>4. q.dir # Local <=> q.kind \in {"upload", "fetch"}
      BY <2>2 DEF WInv, KindsOfRequest
    <2> QED
      BY <1>1, <2>2, <2>3, <2>4, RequestStep DEF WillKeep
  <1> QED
    BY <1>3, <1>4

LEMMA ReadFoundStep == ASSUME WInv, NEW r \in Requests, ReadFound(r) PROVE WInv'
  <1>1. /\ req' = [req EXCEPT ![r] = Idle] /\ disk' = disk
        /\ UNCHANGED << now, sessions, retired, made >> /\ req[r].pc = "found"
    BY DEF ReadFound, At
  <1> QED
    BY <1>1, IdleIsRequest, RequestStep DEF WillKeep

\* A step that rewrites the store under the lock: what the store and the
\* retired directories lose goes to the request as stale.
LEMMA StoreStep ==
    ASSUME WInv, NEW r \in Requests, NEW q \in Request, UNCHANGED << now, made, disk >>,
           req' = [req EXCEPT ![r] = q],
           sessions' \in [Sessions -> Entry], retired' \in [Dirs -> Nat \cup {Never}],
           q.dir # Local <=> q.kind \in {"upload", "fetch"},
           q.pc \in {"get", "dirs"} \/ q.then = "dirs" => q.kind # "upload",
           req[r].pc # "remove", q.pc = "remove",
           \A d \in disk : Stored(sessions, d) \/ retired[d] # Never =>
             Stored(sessions', d) \/ retired'[d] # Never \/ d \in q.stale,
           req[r].dir \in disk =>
             \/ q.dir = req[r].dir /\ q.then \in {"dirs", "set"}
             \/ Stored(sessions', req[r].dir) \/ retired'[req[r].dir] # Never
             \/ req[r].dir \in q.stale
    PROVE  WInv'
  <1>1. req'[r] = q /\ \A p \in Requests \ {r} : req'[p] = req[p]
    BY DEF WInv, TypeOK
  <1>2. TypeOK'
    BY DEF WInv, TypeOK
  <1>3. KindsOfRequest'
    BY <1>1 DEF WInv, KindsOfRequest
  <1>4. ASSUME NEW d \in disk, ~Stored(sessions', d), retired'[d] = Never PROVE Held(d)'
    <2>1. CASE d \in q.stale
      BY <1>1, <2>1 DEF Held
    <2>2. CASE d \notin q.stale
      <3>1. PICK p \in Requests : \/ req[p].dir = d /\ WillKeep(p)
                                  \/ d \in req[p].stale /\ req[p].pc = "remove"
        BY <1>4, <2>2 DEF WInv, Held
      <3>2. CASE p = r
        BY <1>1, <1>4, <2>2, <3>1, <3>2 DEF Held, WillKeep
      <3>3. CASE p # r
        BY <1>1, <3>1, <3>3 DEF Held, WillKeep
      <3> QED
        BY <3>2, <3>3
    <2> QED
      BY <2>1, <2>2
  <1>5. \A d \in disk' : (Stored(sessions, d) \/ retired[d] # Never \/ Held(d))'
    BY <1>4 DEF Stored
  <1> QED
    BY <1>2, <1>3, <1>5 DEF WInv

LEMMA GetFilesStep == ASSUME WInv, NEW r \in Requests, GetFiles(r) PROVE WInv'
  <1> DEFINE sid == req[r].sid
             ss == CleanupSessions(sessions)
             touched == [ss[sid] EXCEPT !.live = TRUE, !.ts = now]
             stale == Stale(sessions, retired)
             then == CASE req[r].kind = "fetch" -> "dirs"
                       [] req[r].kind = "file" -> "set"
                       [] OTHER -> "found"
             q == [req[r] EXCEPT !.files = ss[sid].files, !.at = now, !.stale = stale,
                                 !.pc = "remove", !.then = then]
  <1>1. /\ sessions' = [ss EXCEPT ![sid] = touched] /\ req[r].pc = "get"
        /\ retired' = CleanupRetired(sessions, retired) /\ UNCHANGED << now, made, disk >>
    BY DEF GetFiles, At
  <1>2. req' = [req EXCEPT ![r] = q]
    BY DEF GetFiles
  <1>3. /\ req[r] \in Request /\ sid \in Sessions /\ now \in Nat
        /\ sessions \in [Sessions -> Entry] /\ retired \in [Dirs -> Nat \cup {Never}]
    BY DEF WInv, TypeOK, Request
  <1>4. /\ ss \in [Sessions -> Entry] /\ stale \subseteq Dirs
        /\ retired' \in [Dirs -> Nat \cup {Never}]
        /\ \A d \in Dirs : Stored(sessions, d) \/ retired[d] # Never =>
             Stored(ss, d) \/ retired'[d] # Never \/ d \in stale
    BY <1>1, <1>3, CleanupLosesNothing
  <1>5. /\ then \in {"dirs", "set", "found"} /\ (then = "dirs" => req[r].kind = "fetch")
        /\ req[r].dir # Local => then = "dirs"
    <2>1. req[r].kind # "upload" /\ (req[r].dir # Local => req[r].kind = "fetch")
      BY <1>1 DEF WInv, KindsOfRequest
    <2> QED
      BY <2>1
  <1> HIDE DEF ss, then, stale, sid
  <1>6. /\ touched \in Entry /\ touched.dirs = ss[sid].dirs /\ ss[sid].files \in SUBSET (Dirs \cup {Local})
    BY <1>3, <1>4 DEF Entry
  <1> DEFINE files == ss[sid].files
  <1>7. q = [req[r] EXCEPT !.files = files, !.at = now, !.stale = stale, !.pc = "remove",
                           !.then = then]
    OBVIOUS
  <1> HIDE DEF touched, q, files
  <1>8. /\ sessions' \in [Sessions -> Entry] /\ \A d : Stored(ss, d) => Stored(sessions', d)
    BY <1>1, <1>3, <1>4, <1>6 DEF Stored
  <1>9. /\ q \in Request /\ q.dir = req[r].dir /\ q.kind = req[r].kind /\ q.pc = "remove"
        /\ q.stale = stale /\ q.then = then
    <2>1. files \in SUBSET (Dirs \cup {Local})
      BY <1>6 DEF files
    <2> QED
      BY <1>3, <1>4, <1>5, <1>7, <2>1 DEF Request
  <1>10. /\ q.dir # Local <=> q.kind \in {"upload", "fetch"}
         /\ q.then = "dirs" => q.kind # "upload"
    BY <1>5, <1>9 DEF WInv, KindsOfRequest
  <1>11. disk \subseteq Dirs
    BY DEF WInv, TypeOK
  <1>12. \A d \in disk : Stored(sessions, d) \/ retired[d] # Never =>
           Stored(sessions', d) \/ retired'[d] # Never \/ d \in q.stale
    BY <1>4, <1>8, <1>9, <1>11
  <1>13. req[r].dir \in disk => q.dir = req[r].dir /\ q.then \in {"dirs", "set"}
    BY <1>5, <1>9, <1>11, DirsAreNumbers
  <1> QED
    BY <1>1, <1>2, <1>4, <1>8, <1>9, <1>10, <1>12, <1>13, StoreStep

LEMMA SetFilesStep == ASSUME WInv, NEW r \in Requests, SetFiles(r) PROVE WInv'
  <1> DEFINE sid == req[r].sid
             files == FilesToSet(r)
             dirs == DirsToSet(r)
             entry == [live |-> TRUE, files |-> files, dirs |-> dirs, ts |-> now]
             replaced == sessions[sid].dirs \ dirs
             ss == [sessions EXCEPT ![sid] = entry]
             rt == [d \in Dirs |-> IF d \in replaced THEN now ELSE retired[d]]
             stale == Stale(ss, rt)
             q == [req[r] EXCEPT !.stale = stale, !.pc = "remove", !.then = "idle"]
  <1>1. /\ sessions' = CleanupSessions(ss) /\ retired' = CleanupRetired(ss, rt)
        /\ req[r].pc = "set" /\ UNCHANGED << now, made, disk >>
    BY DEF SetFiles, At
  <1>2. req' = [req EXCEPT ![r] = q]
    BY DEF SetFiles
  <1>3. /\ req[r] \in Request /\ sid \in Sessions /\ now \in Nat
        /\ sessions \in [Sessions -> Entry] /\ retired \in [Dirs -> Nat \cup {Never}]
        /\ sessions[sid] \in Entry
    BY DEF WInv, TypeOK, Request
  <1>4. /\ files \in SUBSET (Dirs \cup {Local}) /\ dirs \in SUBSET Dirs
        /\ req[r].dir # Local => req[r].dir \in dirs
    <2>1. req[r].dir # Local => req[r].kind \in {"upload", "fetch"}
      BY DEF WInv, KindsOfRequest
    <2>2. req[r].kind \in {"upload", "fetch"} => req[r].dir \in Dirs
      BY <1>3 DEF WInv, KindsOfRequest, Request, Kinds
    <2>3. /\ req[r].dir \in Dirs \cup {Local} /\ req[r].dirs \subseteq Dirs
          /\ req[r].files \subseteq Dirs \cup {Local} /\ sessions[sid].dirs \subseteq Dirs
      BY <1>3 DEF Request, Entry
    <2>4. files \in SUBSET (Dirs \cup {Local})
      BY <2>3 DEF FilesToSet
    <2>5. dirs \in SUBSET Dirs
      BY <2>2, <2>3 DEF DirsToSet
    <2>6. req[r].dir # Local => req[r].dir \in dirs
      BY <2>1 DEF DirsToSet
    <2> QED
      BY <2>4, <2>5, <2>6
  <1> HIDE DEF files, dirs
  <1>5. entry \in Entry /\ entry.dirs = dirs
    BY <1>3, <1>4 DEF Entry
  <1> HIDE DEF entry
  <1>6. /\ ss \in [Sessions -> Entry] /\ rt \in [Dirs -> Nat \cup {Never}]
        /\ req[r].dir # Local => Stored(ss, req[r].dir)
        /\ \A d \in Dirs : Stored(sessions, d) \/ retired[d] # Never =>
             Stored(ss, d) \/ rt[d] # Never
    <2>1. ss \in [Sessions -> Entry] /\ ss[sid].dirs = dirs
      BY <1>3, <1>5
    <2>2. rt \in [Dirs -> Nat \cup {Never}]
      BY <1>3
    <2>3. \A d \in Dirs : retired[d] # Never => rt[d] # Never
      BY <1>3 DEF Never
    <2>4. ASSUME NEW d \in Dirs, Stored(sessions, d), ~Stored(ss, d) PROVE rt[d] # Never
      <3>1. PICK s \in Sessions : d \in sessions[s].dirs
        BY <2>4 DEF Stored
      <3>2. s = sid /\ d \notin dirs
        BY <1>3, <2>1, <2>4, <3>1 DEF Stored
      <3> QED
        BY <1>3, <3>1, <3>2 DEF Never
    <2> QED
      BY <1>3, <1>4, <2>1, <2>2, <2>3, <2>4 DEF Stored
  <1> HIDE DEF ss, rt
  <1>7. /\ sessions' \in [Sessions -> Entry] /\ retired' \in [Dirs -> Nat \cup {Never}]
        /\ stale \subseteq Dirs
        /\ \A d \in Dirs : Stored(ss, d) \/ rt[d] # Never =>
             Stored(sessions', d) \/ retired'[d] # Never \/ d \in stale
    BY <1>1, <1>3, <1>6, CleanupLosesNothing
  <1> HIDE DEF stale
  <1>8. /\ q \in Request /\ q.dir = req[r].dir /\ q.kind = req[r].kind /\ q.pc = "remove"
        /\ q.stale = stale /\ q.then = "idle"
    BY <1>3, <1>7 DEF Request
  <1> HIDE DEF q, sid
  <1>9. q.dir # Local <=> q.kind \in {"upload", "fetch"}
    BY <1>8 DEF WInv, KindsOfRequest
  <1>10. disk \subseteq Dirs
    BY DEF WInv, TypeOK
  <1>11. \A d \in disk : Stored(sessions, d) \/ retired[d] # Never =>
           Stored(sessions', d) \/ retired'[d] # Never \/ d \in q.stale
    BY <1>6, <1>7, <1>8, <1>10
  <1>12. req[r].dir \in disk => \/ Stored(sessions', req[r].dir)
                                \/ retired'[req[r].dir] # Never \/ req[r].dir \in q.stale
    BY <1>6, <1>7, <1>8, <1>10, DirsAreNumbers
  <1> QED
    BY <1>1, <1>2, <1>7, <1>8, <1>9, <1>11, <1>12, StoreStep

LEMMA TickStep == ASSUME WInv, Tick PROVE WInv'
  <1>1. now' = now + 1 /\ UNCHANGED << sessions, retired, disk, made, req >>
    BY DEF Tick
  <1>2. TypeOK' /\ KindsOfRequest'
    BY <1>1 DEF WInv, TypeOK, KindsOfRequest
  <1>3. \A d \in disk' : (Stored(sessions, d) \/ retired[d] # Never \/ Held(d))'
    BY <1>1 DEF WInv, Stored, Held, WillKeep
  <1> QED
    BY <1>2, <1>3 DEF WInv

LEMMA NextPreserves == WInv /\ [Next]_vars => WInv'
  <1> SUFFICES ASSUME WInv, [Next]_vars PROVE WInv'
    OBVIOUS
  <1>1. ASSUME NEW r \in Requests, Handle(r) PROVE WInv'
    BY <1>1, WorkDoneStep, WorkFailsStep, GetFilesStep, ReadUploadDirsStep, SetFilesStep,
       RemoveUploadDirsStep, ReadFoundStep DEF Handle
  <1>2. ASSUME NEW r \in Requests, NEW k \in Kinds, NEW s \in Sessions, Begin(r, k, s)
        PROVE  WInv'
    BY <1>2, BeginStep
  <1>3. CASE Tick
    BY <1>3, TickStep
  <1>4. CASE UNCHANGED vars
    <2>1. TypeOK' /\ KindsOfRequest'
      BY <1>4 DEF vars, WInv, TypeOK, KindsOfRequest
    <2>2. \A d \in disk' : (Stored(sessions, d) \/ retired[d] # Never \/ Held(d))'
      BY <1>4 DEF vars, WInv, Stored, Held, WillKeep
    <2> QED
      BY <2>1, <2>2 DEF WInv
  <1> QED
    BY <1>1, <1>2, <1>3, <1>4 DEF Next

(* No directory is lost, however requests overlap, whenever sessions       *)
(* expire and whichever request fails (_set_files, _get_files,             *)
(* _cleanup_expired_sessions, _remove_upload_dirs and their callers).      *)
THEOREM NothingIsLeaked == Spec => []NoDirectoryIsLost
  <1>1. WInv => NoDirectoryIsLost
    <2> SUFFICES ASSUME WInv, NEW d \in disk
                 PROVE  \/ \E s \in Sessions : d \in sessions[s].dirs
                        \/ retired[d] # Never
                        \/ \E r \in Requests : Busy(r) /\ (req[r].dir = d \/ d \in req[r].stale)
      BY DEF NoDirectoryIsLost
    <2>1. CASE Stored(sessions, d) \/ retired[d] # Never
      BY <2>1 DEF Stored
    <2>2. CASE Held(d)
      BY <2>2 DEF Held, WillKeep, Busy
    <2> QED
      BY <2>1, <2>2 DEF WInv
  <1> QED
    BY <1>1, Init_WInv, NextPreserves, PTL DEF Spec

-----------------------------------------------------------------------------
(* What is listed can be opened, for any number of sessions, request       *)
(* threads, directories and ticks: if the requests that add to a list they *)
(* have read, and that write back one they have read, have their session   *)
(* to themselves.                                                          *)

\* What DownloadsStay needs: the other requests may overlap in any way.
ReadersAreAlone == Overlapping \cap {"fetch", "file"} = {}

-----------------------------------------------------------------------------
(* The inductive invariant, part by part.                                  *)

\* The request x has its directory in hand; will open a file it found; has
\* read the list it will write.
Keeping(x) == \/ x.pc \in {"work", "get", "dirs", "set"}
              \/ (x.pc = "remove" /\ x.then \in {"dirs", "set"})
Finding(x) == x.pc = "found" \/ (x.pc = "remove" /\ x.then = "found")
Reading(x) == /\ x.kind \in {"fetch", "file"}
              /\ x.pc \in {"dirs", "set"} \/ (x.pc = "remove" /\ x.then \in {"dirs", "set"})

\* Nobody but the request that made it knows the directory.
Unseen(d) == /\ ~Stored(sessions, d) /\ retired[d] = Never
             /\ \A q \in Requests : d \notin req[q].stale /\ d \notin req[q].files

NumbersAreMade ==
    \A d \in Dirs : d > made =>
        d \notin disk /\ Unseen(d) /\ \A r \in Requests : Keeping(req[r]) => req[r].dir # d

HandsAreFull ==
    \A r \in Requests : Keeping(req[r]) /\ req[r].dir \in Dirs =>
        /\ req[r].dir \in disk /\ Unseen(req[r].dir)
        /\ \A q \in Requests \ {r} : Keeping(req[q]) => req[q].dir # req[r].dir

\* A store in which no directory is shared or retired, and every downloaded
\* file has its directory.
SoundStore(ss, rt) ==
    /\ \A s \in Sessions : \A t \in Sessions \ {s} : ss[s].dirs \cap ss[t].dirs = {}
    /\ \A s \in Sessions : /\ ss[s].files \cap Dirs \subseteq ss[s].dirs
                           /\ \A d \in ss[s].dirs : rt[d] = Never

StoreStays ==
    \A d \in Dirs : Stored(sessions, d) => d \in disk /\ \A q \in Requests : d \notin req[q].stale

\* One that overlaps nothing has its session to itself,
\* so what it has read is what the store holds.
Alone ==
    \A r \in Requests : \A q \in Requests \ {r} :
        req[r].pc # "idle" /\ req[q].pc # "idle" /\ req[r].sid = req[q].sid =>
            req[r].kind \in Overlapping

ReadsAreFresh ==
    \A r \in Requests : Reading(req[r]) =>
        /\ sessions[req[r].sid].ts = now
        /\ sessions[req[r].sid].files = req[r].files
        /\ req[r].kind = "fetch" /\ req[r].pc = "set" => req[r].dirs = sessions[req[r].sid].dirs

\* The directory d will not be removed until the TTL has passed since t.
Lasts(ss, rt, d, t) == \/ (rt[d] # Never /\ rt[d] >= t)
                       \/ (rt[d] = Never /\ \E s \in Sessions : d \in ss[s].dirs /\ ss[s].ts >= t)

FoundStays ==
    \A r \in Requests : Finding(req[r]) =>
        /\ req[r].at <= now
        /\ now - req[r].at <= TTL =>
            \A d \in req[r].files \cap Dirs :
                /\ d \in disk /\ Lasts(sessions, retired, d, req[r].at)
                /\ \A q \in Requests : d \notin req[q].stale

\* A fetch reads the directories after it has read the files.
FetchReadsBoth ==
    \A r \in Requests : req[r].pc = "remove" /\ req[r].kind = "fetch" => req[r].then # "set"

DInv == /\ WInv /\ FetchReadsBoth /\ NumbersAreMade /\ HandsAreFull /\ SoundStore(sessions, retired)
        /\ StoreStays /\ Alone /\ ReadsAreFresh /\ FoundStays

LEMMA IdleHoldsNothing ==
    /\ ~Keeping(Idle) /\ ~Finding(Idle) /\ ~Reading(Idle)
    /\ Idle.files = {} /\ Idle.stale = {} /\ Idle.pc = "idle"
  BY DEF Idle, Keeping, Finding, Reading

LEMMA InitDInv == Init => DInv
  <1> SUFFICES ASSUME Init PROVE DInv
    OBVIOUS
  <1>1. WInv
    BY Init_WInv
  <1>2. \A r \in Requests : req[r] = Idle
    BY DEF Init
  <1>3. /\ \A s \in Sessions : sessions[s].dirs = {} /\ sessions[s].files = {}
        /\ \A d \in Dirs : retired[d] = Never /\ ~Stored(sessions, d)
        /\ disk = {}
    BY DEF Init, NoEntry, Stored
  <1>4. SoundStore(sessions, retired) /\ StoreStays
    BY <1>3 DEF SoundStore, StoreStays
  <1>5. NumbersAreMade /\ HandsAreFull
    BY <1>2, <1>3, IdleHoldsNothing DEF NumbersAreMade, HandsAreFull, Unseen
  <1>6. Alone /\ ReadsAreFresh /\ FoundStays /\ FetchReadsBoth
    BY <1>2, IdleHoldsNothing DEF Alone, ReadsAreFresh, FoundStays, FetchReadsBoth
  <1> QED
    BY <1>1, <1>4, <1>5, <1>6 DEF DInv

-----------------------------------------------------------------------------
(* Steps of a request that leave the store alone.                          *)

LEMMA QuietStep ==
    ASSUME DInv, WInv', NEW r \in Requests, NEW x \in Request,
           UNCHANGED << now, sessions, retired, made >>,
           req' = [req EXCEPT ![r] = x], disk' \subseteq disk,
           x.pc # "remove", x.files \subseteq req[r].files, x.stale \subseteq req[r].stale,
           x.pc # "idle" => /\ req[r].pc # "idle" /\ x.sid = req[r].sid
                            /\ x.kind = req[r].kind /\ x.at = req[r].at,
           Keeping(x) => Keeping(req[r]) /\ x.dir = req[r].dir,
           Finding(x) => Finding(req[r]),
           Reading(x) => /\ Reading(req[r]) /\ x.files = req[r].files
                         /\ x.kind = "fetch" /\ x.pc = "set" => x.dirs = sessions[x.sid].dirs,
           \A d \in disk \ disk' : \/ \E q \in Requests : d \in req[q].stale
                                   \/ d = req[r].dir /\ Keeping(req[r]) /\ ~Keeping(x)
    PROVE  DInv'
  <1>1. req'[r] = x /\ \A p \in Requests \ {r} : req'[p] = req[p]
    BY DEF DInv, WInv, TypeOK
  <1>2. ASSUME NEW d \in Dirs, Unseen(d) PROVE Unseen(d)'
    BY <1>1, <1>2 DEF Unseen, Stored
  <1>0. FetchReadsBoth'
    BY <1>1 DEF DInv, FetchReadsBoth
  <1>3. NumbersAreMade'
    BY <1>1, <1>2 DEF DInv, NumbersAreMade
  <1>4. HandsAreFull'
    <2> SUFFICES ASSUME NEW p \in Requests, Keeping(req'[p]), NEW d \in Dirs, d = req'[p].dir
                 PROVE  /\ d \in disk' /\ Unseen(d)'
                        /\ \A q \in Requests \ {p} : Keeping(req'[q]) => req'[q].dir # d
      BY DEF HandsAreFull, Unseen
    <2>1. Keeping(req[p]) /\ req[p].dir = d
      BY <1>1
    <2>2. /\ d \in disk /\ Unseen(d)
          /\ \A q \in Requests \ {p} : Keeping(req[q]) => req[q].dir # d
      BY <2>1 DEF DInv, HandsAreFull
    <2>3. \A q \in Requests : Keeping(req'[q]) => Keeping(req[q]) /\ req'[q].dir = req[q].dir
      BY <1>1
    <2>4. d \in disk'
      BY <1>1, <2>2, <2>1 DEF Unseen
    <2> QED
      BY <1>2, <2>2, <2>3, <2>4
  <1>5. SoundStore(sessions', retired')
    BY DEF DInv, SoundStore
  <1>6. ASSUME NEW d \in Dirs, NEW q \in Requests, \A p \in Requests : d \notin req[p].stale
        PROVE  d \notin req'[q].stale
    BY <1>1, <1>6
  <1>7. StoreStays'
    <2> SUFFICES ASSUME NEW d \in Dirs, Stored(sessions, d)
                 PROVE  d \in disk' /\ \A q \in Requests : d \notin req'[q].stale
      BY DEF StoreStays, Stored
    <2>1. d \in disk /\ \A q \in Requests : d \notin req[q].stale
      BY DEF DInv, StoreStays
    <2>2. ~(d = req[r].dir /\ Keeping(req[r]))
      BY DEF DInv, HandsAreFull, Unseen
    <2> QED
      BY <1>6, <2>1, <2>2
  <1>8. Alone'
    BY <1>1 DEF DInv, Alone
  <1>9. ReadsAreFresh'
    <2> SUFFICES ASSUME NEW p \in Requests, Reading(req'[p])
                 PROVE  /\ sessions[req'[p].sid].ts = now
                        /\ sessions[req'[p].sid].files = req'[p].files
                        /\ req'[p].kind = "fetch" /\ req'[p].pc = "set" =>
                             req'[p].dirs = sessions[req'[p].sid].dirs
      BY DEF ReadsAreFresh
    <2>1. CASE p # r
      BY <1>1, <2>1 DEF DInv, ReadsAreFresh
    <2>2. CASE p = r
      <3>1. x.pc # "idle" /\ Reading(req[r])
        BY <1>1, <2>2 DEF Reading
      <3> QED
        BY <1>1, <2>2, <3>1 DEF DInv, ReadsAreFresh
    <2> QED
      BY <2>1, <2>2
  <1>10. FoundStays'
    <2> SUFFICES ASSUME NEW p \in Requests, Finding(req'[p])
                 PROVE  /\ req'[p].at <= now
                        /\ now - req'[p].at <= TTL =>
                             \A d \in req'[p].files \cap Dirs :
                               /\ d \in disk' /\ Lasts(sessions, retired, d, req'[p].at)
                               /\ \A q \in Requests : d \notin req'[q].stale
      BY DEF FoundStays, Lasts
    <2>1. Finding(req[p]) /\ req'[p].at = req[p].at /\ req'[p].files \subseteq req[p].files
      BY <1>1 DEF Finding
    <2>2. req[p].at <= now
      BY <2>1 DEF DInv, FoundStays
    <2>3. ASSUME now - req'[p].at <= TTL, NEW d \in req'[p].files \cap Dirs
          PROVE  /\ d \in disk' /\ Lasts(sessions, retired, d, req'[p].at)
                 /\ \A q \in Requests : d \notin req'[q].stale
      <3>1. /\ d \in disk /\ Lasts(sessions, retired, d, req[p].at)
            /\ \A q \in Requests : d \notin req[q].stale
        BY <2>1, <2>3 DEF DInv, FoundStays
      <3>2. ~(d = req[r].dir /\ Keeping(req[r]))
        BY <2>1 DEF DInv, HandsAreFull, Unseen
      <3> QED
        BY <1>6, <2>1, <3>1, <3>2
    <2> QED
      BY <2>1, <2>2, <2>3
  <1> QED
    BY <1>0, <1>3, <1>4, <1>5, <1>7, <1>8, <1>9, <1>10 DEF DInv

LEMMA WorkDoneQuiet ==
    ASSUME DInv, WInv', NEW r \in Requests, WorkDone(r) PROVE DInv'
  <1> DEFINE next == IF req[r].kind \in {"upload", "paths"} THEN "set" ELSE "get"
             x == [req[r] EXCEPT !.pc = next]
  <1>1. /\ req' = [req EXCEPT ![r] = x] /\ disk' = disk
        /\ UNCHANGED << now, sessions, retired, made >> /\ req[r].pc = "work"
    BY DEF WorkDone, At
  <1>2. next \in {"set", "get"} /\ (next = "set" => req[r].kind \in {"upload", "paths"})
    OBVIOUS
  <1>3. req[r] \in Request
    BY DEF DInv, WInv, TypeOK
  <1> HIDE DEF next
  <1>4. /\ x \in Request /\ x.pc = next /\ x.dir = req[r].dir /\ x.kind = req[r].kind
        /\ x.files = req[r].files /\ x.stale = req[r].stale /\ x.sid = req[r].sid
        /\ x.at = req[r].at
    BY <1>2, <1>3 DEF Request
  <1> HIDE DEF x
  <1>5. /\ Keeping(req[r]) /\ ~Finding(x) /\ ~Reading(x) /\ x.pc # "remove"
    BY <1>1, <1>2, <1>4 DEF Keeping, Finding, Reading
  <1> QED
    BY <1>1, <1>4, <1>5, QuietStep

LEMMA WorkFailsQuiet ==
    ASSUME DInv, WInv', NEW r \in Requests, WorkFails(r) PROVE DInv'
  <1>1. /\ req' = [req EXCEPT ![r] = Idle] /\ disk' = disk \ {req[r].dir}
        /\ UNCHANGED << now, sessions, retired, made >> /\ req[r].pc = "work"
    BY DEF WorkFails, At
  <1>2. Keeping(req[r])
    BY <1>1 DEF Keeping
  <1> QED
    BY <1>1, <1>2, IdleIsRequest, IdleHoldsNothing, QuietStep

LEMMA ReadUploadDirsQuiet ==
    ASSUME DInv, WInv', NEW r \in Requests, ReadUploadDirs(r) PROVE DInv'
  <1> DEFINE read == sessions[req[r].sid].dirs
             x == [req[r] EXCEPT !.dirs = read, !.pc = "set"]
  <1>1. /\ req' = [req EXCEPT ![r] = x] /\ disk' = disk
        /\ UNCHANGED << now, sessions, retired, made >> /\ req[r].pc = "dirs"
    BY DEF ReadUploadDirs, At
  <1>2. req[r] \in Request /\ read \in SUBSET Dirs
    BY DEF DInv, WInv, TypeOK, Request, Entry
  <1>3. read = sessions[req[r].sid].dirs
    OBVIOUS
  <1> HIDE DEF read
  <1>4. /\ x \in Request /\ x.pc = "set" /\ x.dir = req[r].dir /\ x.kind = req[r].kind
        /\ x.files = req[r].files /\ x.stale = req[r].stale /\ x.sid = req[r].sid
        /\ x.at = req[r].at /\ x.dirs = read
    BY <1>2 DEF Request
  <1> HIDE DEF x
  <1>5. /\ Keeping(req[r]) /\ ~Finding(x) /\ (Reading(x) => Reading(req[r]))
    BY <1>1, <1>4 DEF Keeping, Finding, Reading
  <1> QED
    BY <1>1, <1>3, <1>4, <1>5, QuietStep

LEMMA RemoveUploadDirsQuiet ==
    ASSUME DInv, WInv', NEW r \in Requests, RemoveUploadDirs(r) PROVE DInv'
  <1> DEFINE x == IF req[r].then = "idle" THEN Idle
                  ELSE [req[r] EXCEPT !.pc = req[r].then, !.stale = {}]
  <1>1. /\ req' = [req EXCEPT ![r] = x] /\ disk' = disk \ req[r].stale
        /\ UNCHANGED << now, sessions, retired, made >> /\ req[r].pc = "remove"
    BY DEF RemoveUploadDirs, At
  <1>2. req[r] \in Request
    BY DEF DInv, WInv, TypeOK
  <1>3. CASE req[r].then = "idle"
    <2>1. x = Idle
      BY <1>3
    <2> HIDE DEF x
    <2> QED
      BY <1>1, <2>1, IdleIsRequest, IdleHoldsNothing, QuietStep
  <1>4. CASE req[r].then # "idle"
    <2>1. x = [req[r] EXCEPT !.pc = req[r].then, !.stale = {}]
      BY <1>4
    <2> HIDE DEF x
    <2>2. /\ x \in Request /\ x.pc = req[r].then /\ x.dir = req[r].dir
          /\ x.kind = req[r].kind /\ x.files = req[r].files /\ x.stale = {}
          /\ x.sid = req[r].sid /\ x.at = req[r].at /\ x.pc \in {"dirs", "set", "found"}
      BY <1>2, <1>4, <2>1 DEF Request
    <2>3. /\ Keeping(x) => Keeping(req[r])
          /\ Finding(x) => Finding(req[r])
          /\ Reading(x) => Reading(req[r])
      BY <1>1, <2>2 DEF Keeping, Finding, Reading
    <2>4. ~(x.kind = "fetch" /\ x.pc = "set")
      BY <1>1, <2>2 DEF DInv, FetchReadsBoth
    <2> QED
      BY <1>1, <2>2, <2>3, <2>4, QuietStep
  <1> QED
    BY <1>3, <1>4

LEMMA ReadFoundQuiet ==
    ASSUME DInv, WInv', NEW r \in Requests, ReadFound(r) PROVE DInv'
  <1>1. /\ req' = [req EXCEPT ![r] = Idle] /\ disk' = disk
        /\ UNCHANGED << now, sessions, retired, made >>
    BY DEF ReadFound
  <1> QED
    BY <1>1, IdleIsRequest, IdleHoldsNothing, QuietStep

LEMMA BeginOwn ==
    ASSUME DInv, WInv', NEW r \in Requests, NEW kind \in Kinds, NEW sid \in Sessions,
           Begin(r, kind, sid)
    PROVE  DInv'
  <1> DEFINE dir == IF kind \in {"upload", "fetch"} THEN made + 1 ELSE Local
             first == IF kind = "find" THEN "get" ELSE "work"
             x == [Idle EXCEPT !.kind = kind, !.sid = sid, !.dir = dir, !.pc = first]
  <1>1. /\ req' = [req EXCEPT ![r] = x] /\ UNCHANGED << now, sessions, retired >>
        /\ req[r].pc = "idle"
    BY DEF Begin, At
  <1>2. /\ disk \subseteq disk' /\ disk' \subseteq disk \cup {dir}
        /\ made' >= made /\ made \in Nat /\ made' \in Nat
        /\ \/ dir = Local
           \/ dir \in Dirs /\ dir \in disk' /\ dir = made + 1 /\ made' = made + 1
    <2>1. made \in 0 .. MaxDirs
      BY DEF DInv, WInv, TypeOK
    <2>2. CASE kind \in {"upload", "fetch"}
      BY <2>1, <2>2, BoundsAssumption DEF Begin, Dirs
    <2>3. CASE kind \notin {"upload", "fetch"}
      BY <2>1, <2>3, BoundsAssumption DEF Begin
    <2> QED
      BY <2>2, <2>3
  <1>3. first \in {"get", "work"}
    OBVIOUS
  <1> HIDE DEF dir, first
  <1>4. /\ x.dir = dir /\ x.kind = kind /\ x.pc = first /\ x.sid = sid
        /\ x.files = {} /\ x.stale = {}
    BY DEF Idle
  <1> HIDE DEF x
  <1>5. req'[r] = x /\ \A p \in Requests \ {r} : req'[p] = req[p]
    BY <1>1 DEF DInv, WInv, TypeOK
  <1>6. ~Finding(x) /\ ~Reading(x)
    BY <1>3, <1>4 DEF Finding, Reading
  <1>7. ASSUME NEW d \in Dirs, Unseen(d) PROVE Unseen(d)'
    BY <1>1, <1>4, <1>5, <1>7 DEF Unseen, Stored
  <1>8. ASSUME NEW d \in Dirs, d = dir
        PROVE  /\ Unseen(d)' /\ d \in disk'
               /\ \A p \in Requests : Keeping(req[p]) => req[p].dir # d
    <2>1. d > made /\ d \in disk'
      BY <1>2, <1>8, DirsAreNumbers
    <2>2. Unseen(d) /\ \A p \in Requests : Keeping(req[p]) => req[p].dir # d
      BY <2>1 DEF DInv, NumbersAreMade
    <2> QED
      BY <1>7, <2>1, <2>2
  <1>9. NumbersAreMade'
    <2> SUFFICES ASSUME NEW d \in Dirs, d > made'
                 PROVE  /\ d \notin disk' /\ Unseen(d)'
                        /\ \A p \in Requests : Keeping(req'[p]) => req'[p].dir # d
      BY DEF NumbersAreMade, Unseen
    <2>1. d > made /\ d # dir
      BY <1>2, BoundsAssumption, DirsAreNumbers DEF Dirs
    <2>2. d \notin disk /\ Unseen(d) /\ \A p \in Requests : Keeping(req[p]) => req[p].dir # d
      BY <2>1 DEF DInv, NumbersAreMade
    <2> QED
      BY <1>2, <1>4, <1>5, <1>7, <2>1, <2>2
  <1>10. HandsAreFull'
    <2> SUFFICES ASSUME NEW p \in Requests, Keeping(req'[p]), NEW d \in Dirs, d = req'[p].dir
                 PROVE  /\ d \in disk' /\ Unseen(d)'
                        /\ \A q \in Requests \ {p} : Keeping(req'[q]) => req'[q].dir # d
      BY DEF HandsAreFull, Unseen
    <2>1. CASE p = r
      BY <1>2, <1>4, <1>5, <1>8, <2>1, DirsAreNumbers
    <2>2. CASE p # r
      <3>1. /\ d \in disk /\ Unseen(d)
            /\ \A q \in Requests \ {p} : Keeping(req[q]) => req[q].dir # d
        BY <1>5, <2>2 DEF DInv, HandsAreFull
      <3>2. dir # d
        BY <1>5, <1>8, <2>2
      <3> QED
        BY <1>2, <1>4, <1>5, <1>7, <3>1, <3>2
    <2> QED
      BY <2>1, <2>2
  <1>11. SoundStore(sessions', retired')
    BY <1>1 DEF DInv, SoundStore
  <1>12. StoreStays'
    BY <1>1, <1>2, <1>4, <1>5 DEF DInv, StoreStays, Stored
  <1>13. Alone'
    BY <1>4, <1>5 DEF DInv, Alone, Begin, MayBegin
  <1>14. ReadsAreFresh'
    BY <1>1, <1>5, <1>6 DEF DInv, ReadsAreFresh
  <1>15. FoundStays'
    BY <1>1, <1>2, <1>4, <1>5, <1>6 DEF DInv, FoundStays, Lasts
  <1>16. FetchReadsBoth'
    BY <1>3, <1>4, <1>5 DEF DInv, FetchReadsBoth
  <1> QED
    BY <1>16, <1>9, <1>10, <1>11, <1>12, <1>13, <1>14, <1>15 DEF DInv

LEMMA TickStays == ASSUME DInv, WInv', Tick PROVE DInv'
  <1>1. /\ now' = now + 1 /\ UNCHANGED << sessions, retired, disk, made, req >>
        /\ \A r \in Requests : req[r].kind \in {"fetch", "file"} =>
                             req[r].pc \notin {"remove", "dirs", "set"}
    BY DEF Tick
  <1>2. \A r \in Requests : ~Reading(req[r])
    BY <1>1 DEF Reading
  <1>3. now \in Nat /\ \A r \in Requests : req[r].at \in Nat
    BY DEF DInv, WInv, TypeOK, Request
  <1>4. NumbersAreMade' /\ HandsAreFull'
    BY <1>1 DEF DInv, NumbersAreMade, HandsAreFull, Unseen, Stored
  <1>5. SoundStore(sessions', retired') /\ StoreStays' /\ Alone'
    BY <1>1 DEF DInv, SoundStore, StoreStays, Alone, Stored
  <1>6. ReadsAreFresh' /\ FetchReadsBoth'
    BY <1>1, <1>2 DEF ReadsAreFresh, DInv, FetchReadsBoth
  <1>7. FoundStays'
    <2> SUFFICES ASSUME NEW r \in Requests, Finding(req[r])
                 PROVE  /\ req[r].at <= now'
                        /\ now' - req[r].at <= TTL => now - req[r].at <= TTL
      BY <1>1 DEF DInv, FoundStays, Lasts
    <2>1. req[r].at <= now
      BY DEF DInv, FoundStays
    <2> QED
      BY <1>1, <1>3, <2>1, BoundsAssumption
  <1> QED
    BY <1>4, <1>5, <1>6, <1>7 DEF DInv

-----------------------------------------------------------------------------
(* The steps that rewrite the store.                                       *)

\* Expiry takes nothing from a session that is kept, and removes nothing
\* that was in use within the TTL.
LEMMA CleanupKeeps ==
    ASSUME now \in Nat, NEW ss \in [Sessions -> Entry], NEW rt \in [Dirs -> Nat \cup {Never}],
           SoundStore(ss, rt)
    PROVE  /\ \A s \in Sessions : ss[s].ts = now => CleanupSessions(ss)[s] = ss[s]
           /\ SoundStore(CleanupSessions(ss), CleanupRetired(ss, rt))
           /\ \A d \in Dirs : Stored(CleanupSessions(ss), d) =>
                Stored(ss, d) /\ d \notin Stale(ss, rt)
           /\ \A d \in Dirs : ~Stored(ss, d) /\ rt[d] = Never =>
                /\ ~Stored(CleanupSessions(ss), d) /\ d \notin Stale(ss, rt)
                /\ CleanupRetired(ss, rt)[d] = Never
           /\ \A d \in Dirs, t \in Nat :
                Lasts(ss, rt, d, t) /\ t <= now /\ now - t <= TTL =>
                  /\ Lasts(CleanupSessions(ss), CleanupRetired(ss, rt), d, t)
                  /\ d \notin Stale(ss, rt)
  <1> DEFINE cs == CleanupSessions(ss)
             cr == CleanupRetired(ss, rt)
             er == RetiredByExpiry(ss, rt)
  <1>1. \A s \in Sessions : cs[s] = IF s \in Expired(ss) THEN NoEntry ELSE ss[s]
    BY DEF CleanupSessions
  <1>2. \A d \in Dirs : /\ cr[d] = IF d \in Stale(ss, rt) THEN Never ELSE er[d]
                        /\ d \in Stale(ss, rt) <=> er[d] # Never /\ now - er[d] > TTL
    BY DEF CleanupRetired, Stale
  <1>3. \A d \in Dirs : (\A s \in Expired(ss) : d \notin ss[s].dirs) => er[d] = rt[d]
    BY DEF RetiredByExpiry
  <1> HIDE DEF cs, cr, er
  <1>4. Expired(ss) \subseteq Sessions
    BY DEF Expired
  <1>5. \A s \in Sessions : ss[s].ts = now => s \notin Expired(ss)
    BY BoundsAssumption DEF Expired
  <1>6. ASSUME NEW s \in Sessions \ Expired(ss), NEW d \in Dirs, d \in ss[s].dirs
        PROVE  cr[d] = Never /\ d \notin Stale(ss, rt)
    <2>1. rt[d] = Never /\ \A u \in Expired(ss) : d \notin ss[u].dirs
      BY <1>4, <1>6 DEF SoundStore
    <2> QED
      BY <1>2, <1>3, <2>1
  <1>7. \A s \in Sessions : ss[s].dirs \subseteq Dirs
    BY DEF Entry
  <1>8. \A s \in Sessions : cs[s].dirs \subseteq ss[s].dirs
    BY <1>1 DEF NoEntry
  <1>9. SoundStore(cs, cr)
    <2>1. \A s \in Sessions : \A t \in Sessions \ {s} : cs[s].dirs \cap cs[t].dirs = {}
      BY <1>8 DEF SoundStore
    <2>2. ASSUME NEW s \in Sessions
          PROVE  /\ cs[s].files \cap Dirs \subseteq cs[s].dirs
                 /\ \A d \in cs[s].dirs : cr[d] = Never
      <3>1. CASE s \in Expired(ss)
        BY <1>1, <3>1 DEF NoEntry
      <3>2. CASE s \notin Expired(ss)
        BY <1>1, <1>6, <1>7, <3>2 DEF SoundStore
      <3> QED
        BY <3>1, <3>2
    <2> QED
      BY <2>1, <2>2 DEF SoundStore
  <1>10. ASSUME NEW d \in Dirs, Stored(cs, d) PROVE Stored(ss, d) /\ d \notin Stale(ss, rt)
    <2>1. PICK s \in Sessions : d \in cs[s].dirs
      BY <1>10 DEF Stored
    <2>2. s \notin Expired(ss)
      BY <1>1, <2>1 DEF NoEntry
    <2> QED
      BY <1>6, <1>8, <2>1, <2>2 DEF Stored
  <1>11. ASSUME NEW d \in Dirs, ~Stored(ss, d), rt[d] = Never
         PROVE  ~Stored(cs, d) /\ d \notin Stale(ss, rt) /\ cr[d] = Never
    <2>1. er[d] = Never
      BY <1>3, <1>4, <1>11 DEF Stored
    <2> QED
      BY <1>2, <1>8, <1>11, <2>1 DEF Stored
  <1>12. ASSUME NEW d \in Dirs, NEW t \in Nat, Lasts(ss, rt, d, t), t <= now, now - t <= TTL
         PROVE  Lasts(cs, cr, d, t) /\ d \notin Stale(ss, rt)
    <2>1. CASE rt[d] # Never /\ rt[d] >= t
      <3>1. er[d] = rt[d]
        BY <1>3, <1>4, <2>1 DEF SoundStore
      <3>2. rt[d] \in Nat /\ ~(now - rt[d] > TTL)
        BY <1>12, <2>1, BoundsAssumption
      <3>3. d \notin Stale(ss, rt) /\ cr[d] = rt[d]
        BY <1>2, <3>1, <3>2
      <3> QED
        BY <2>1, <3>3 DEF Lasts
    <2>2. CASE rt[d] = Never /\ \E s \in Sessions : d \in ss[s].dirs /\ ss[s].ts >= t
      <3>1. PICK s \in Sessions : d \in ss[s].dirs /\ ss[s].ts >= t
        BY <2>2
      <3>2. ss[s].ts \in Nat
        BY DEF Entry
      <3>3. s \notin Expired(ss)
        BY <1>12, <3>1, <3>2, BoundsAssumption DEF Expired
      <3>4. cs[s] = ss[s] /\ cr[d] = Never /\ d \notin Stale(ss, rt)
        BY <1>1, <1>6, <3>1, <3>3
      <3> QED
        BY <3>1, <3>4 DEF Lasts
    <2> QED
      BY <1>12, <2>1, <2>2 DEF Lasts
  <1>13. \A s \in Sessions : ss[s].ts = now => cs[s] = ss[s]
    BY <1>1, <1>5
  <1> QED
    BY <1>9, <1>10, <1>11, <1>12, <1>13 DEF cs, cr

\* A request that rewrites the store: r is x afterwards.
LEMMA StoreRewritten ==
    ASSUME DInv, WInv', ReadersAreAlone, NEW r \in Requests, NEW x \in Request,
           UNCHANGED << now, made, disk >>, req' = [req EXCEPT ![r] = x],
           req[r].pc \in {"get", "set"}, x.pc = "remove",
           x.sid = req[r].sid, x.kind = req[r].kind, x.dir = req[r].dir,
           x.kind = "fetch" => x.then # "set",
           SoundStore(sessions', retired'),
           \A d \in Dirs : Stored(sessions', d) =>
             (Stored(sessions, d) \/ d = req[r].dir) /\ d \notin x.stale,
           \A d \in Dirs : Unseen(d) /\ (d = req[r].dir => Keeping(x)) =>
             /\ ~Stored(sessions', d) /\ retired'[d] = Never
             /\ d \notin x.stale /\ d \notin x.files,
           \A d \in Dirs, t \in Nat :
             Lasts(sessions, retired, d, t) /\ t <= now /\ now - t <= TTL =>
               Lasts(sessions', retired', d, t) /\ d \notin x.stale,
           \A s \in Sessions \ {req[r].sid} : sessions[s].ts = now => sessions'[s] = sessions[s],
           Reading(x) => /\ sessions'[x.sid].ts = now /\ sessions'[x.sid].files = x.files,
           Finding(x) => /\ x.at = now /\ sessions'[x.sid].ts = now
                         /\ x.files \cap Dirs \subseteq sessions'[x.sid].dirs
    PROVE  DInv'
  <1>1. req'[r] = x /\ \A p \in Requests \ {r} : req'[p] = req[p]
    BY DEF DInv, WInv, TypeOK
  <1>2. ASSUME NEW d \in Dirs, Unseen(d), d = req[r].dir => Keeping(x) PROVE Unseen(d)'
    BY <1>1, <1>2 DEF Unseen
  <1>3. Keeping(req[r])
    BY DEF Keeping
  <1>4. FetchReadsBoth'
    BY <1>1 DEF DInv, FetchReadsBoth
  <1>5. \A q \in Requests : Keeping(req'[q]) => Keeping(req[q]) /\ req'[q].dir = req[q].dir
    BY <1>1, <1>3
  <1>6. NumbersAreMade'
    <2> SUFFICES ASSUME NEW d \in Dirs, d > made
                 PROVE  /\ d \notin disk /\ Unseen(d)'
                        /\ \A p \in Requests : Keeping(req'[p]) => req'[p].dir # d
      BY DEF NumbersAreMade, Unseen
    <2>1. d \notin disk /\ Unseen(d) /\ \A p \in Requests : Keeping(req[p]) => req[p].dir # d
      BY DEF DInv, NumbersAreMade
    <2> QED
      BY <1>2, <1>3, <1>5, <2>1
  <1>7. HandsAreFull'
    <2> SUFFICES ASSUME NEW p \in Requests, Keeping(req'[p]), NEW d \in Dirs, d = req'[p].dir
                 PROVE  /\ d \in disk /\ Unseen(d)'
                        /\ \A q \in Requests \ {p} : Keeping(req'[q]) => req'[q].dir # d
      BY DEF HandsAreFull, Unseen
    <2>1. /\ d \in disk /\ Unseen(d)
          /\ \A q \in Requests \ {p} : Keeping(req[q]) => req[q].dir # d
      BY <1>5 DEF DInv, HandsAreFull
    <2>2. d = req[r].dir => Keeping(x)
      BY <1>1, <1>3, <2>1
    <2> QED
      BY <1>2, <1>5, <2>1, <2>2
  <1>8. StoreStays'
    <2> SUFFICES ASSUME NEW d \in Dirs, Stored(sessions', d)
                 PROVE  d \in disk /\ \A q \in Requests : d \notin req'[q].stale
      BY DEF StoreStays, Stored
    <2>1. d \in disk /\ \A q \in Requests : d \notin req[q].stale
      <3>1. CASE Stored(sessions, d)
        BY <3>1 DEF DInv, StoreStays
      <3>2. CASE d = req[r].dir
        BY <1>3, <3>2 DEF DInv, HandsAreFull, Unseen
      <3> QED
        BY <3>1, <3>2
    <2> QED
      BY <1>1, <2>1
  <1>9. Alone'
    BY <1>1 DEF DInv, Alone
  <1>10. ReadsAreFresh'
    <2> SUFFICES ASSUME NEW p \in Requests, Reading(req'[p])
                 PROVE  /\ sessions'[req'[p].sid].ts = now
                        /\ sessions'[req'[p].sid].files = req'[p].files
                        /\ req'[p].kind = "fetch" /\ req'[p].pc = "set" =>
                             req'[p].dirs = sessions'[req'[p].sid].dirs
      BY DEF ReadsAreFresh
    <2>1. CASE p = r
      BY <1>1, <2>1
    <2>2. CASE p # r
      <3>1. Reading(req[p]) /\ req'[p] = req[p]
        BY <1>1, <2>2
      <3>2. req[p].kind \notin Overlapping /\ req[p].pc # "idle"
        BY <3>1 DEF Reading, ReadersAreAlone
      <3>3. req[p].sid # req[r].sid /\ req[p].sid \in Sessions
        BY <2>2, <3>2 DEF DInv, Alone, WInv, TypeOK, Request
      <3>4. sessions'[req[p].sid] = sessions[req[p].sid]
        BY <3>1, <3>3 DEF DInv, ReadsAreFresh
      <3> QED
        BY <3>1, <3>4 DEF DInv, ReadsAreFresh
    <2> QED
      BY <2>1, <2>2
  <1>11. FoundStays'
    <2> SUFFICES ASSUME NEW p \in Requests, Finding(req'[p])
                 PROVE  /\ req'[p].at <= now
                        /\ now - req'[p].at <= TTL =>
                             \A d \in req'[p].files \cap Dirs :
                               /\ d \in disk /\ Lasts(sessions', retired', d, req'[p].at)
                               /\ \A q \in Requests : d \notin req'[q].stale
      BY DEF FoundStays, Lasts
    <2>1. CASE p = r
      <3>1. /\ x.at = now /\ sessions'[x.sid].ts = now /\ x.sid \in Sessions
            /\ x.files \cap Dirs \subseteq sessions'[x.sid].dirs /\ now \in Nat
        BY <1>1, <2>1 DEF Request, DInv, WInv, TypeOK
      <3>2. ASSUME NEW d \in x.files \cap Dirs
            PROVE  /\ d \in disk /\ Lasts(sessions', retired', d, now)
                   /\ \A q \in Requests : d \notin req'[q].stale
        <4>1. Stored(sessions', d) /\ d \in sessions'[x.sid].dirs
          BY <3>1, <3>2 DEF Stored
        <4>2. d \in disk /\ \A q \in Requests : d \notin req'[q].stale
          BY <1>8, <4>1 DEF StoreStays, Stored
        <4>3. retired'[d] = Never
          BY <3>1, <4>1 DEF SoundStore
        <4> QED
          BY <3>1, <4>1, <4>2, <4>3 DEF Lasts
      <3> QED
        BY <1>1, <2>1, <3>1, <3>2
    <2>2. CASE p # r
      <3>1. Finding(req[p]) /\ req'[p] = req[p] /\ req[p].at \in Nat
        BY <1>1, <2>2 DEF DInv, WInv, TypeOK, Request
      <3>2. req[p].at <= now
        BY <3>1 DEF DInv, FoundStays
      <3>3. ASSUME now - req[p].at <= TTL, NEW d \in req[p].files \cap Dirs
            PROVE  /\ d \in disk /\ Lasts(sessions', retired', d, req[p].at)
                   /\ \A q \in Requests : d \notin req'[q].stale
        <4>1. /\ d \in disk /\ Lasts(sessions, retired, d, req[p].at)
              /\ \A q \in Requests : d \notin req[q].stale
          BY <3>1, <3>3 DEF DInv, FoundStays
        <4>2. Lasts(sessions', retired', d, req[p].at) /\ d \notin x.stale
          BY <3>1, <3>2, <3>3, <4>1
        <4> QED
          BY <1>1, <4>1, <4>2
      <3> QED
        BY <3>1, <3>2, <3>3
    <2> QED
      BY <2>1, <2>2
  <1> QED
    BY <1>4, <1>6, <1>7, <1>8, <1>9, <1>10, <1>11 DEF DInv

LEMMA GetFilesStays ==
    ASSUME DInv, WInv', ReadersAreAlone, NEW r \in Requests, GetFiles(r) PROVE DInv'
  <1> DEFINE sid == req[r].sid
             cs == CleanupSessions(sessions)
             cr == CleanupRetired(sessions, retired)
             stale == Stale(sessions, retired)
             touched == [cs[sid] EXCEPT !.live = TRUE, !.ts = now]
             files == cs[sid].files
             then == CASE req[r].kind = "fetch" -> "dirs"
                       [] req[r].kind = "file" -> "set"
                       [] OTHER -> "found"
             x == [req[r] EXCEPT !.files = files, !.at = now, !.stale = stale,
                                 !.pc = "remove", !.then = then]
  <1>1. /\ sessions' = [cs EXCEPT ![sid] = touched] /\ req[r].pc = "get"
        /\ retired' = cr /\ UNCHANGED << now, made, disk >>
    BY DEF GetFiles, At
  <1>2. req' = [req EXCEPT ![r] = x]
    BY DEF GetFiles
  <1>3. /\ req[r] \in Request /\ sid \in Sessions /\ now \in Nat
        /\ sessions \in [Sessions -> Entry] /\ retired \in [Dirs -> Nat \cup {Never}]
    BY DEF DInv, WInv, TypeOK, Request
  <1>4. cs \in [Sessions -> Entry] /\ stale \subseteq Dirs
    BY <1>3, CleanupLosesNothing
  <1>5. /\ then \in {"dirs", "set", "found"}
        /\ req[r].kind = "fetch" => then = "dirs"
        /\ then = "found" => req[r].kind \notin {"fetch", "file"}
        /\ req[r].dir \in Dirs => then = "dirs"
    <2>1. req[r].kind # "upload" /\ (req[r].dir # Local => req[r].kind = "fetch")
      BY <1>1 DEF DInv, WInv, KindsOfRequest
    <2> QED
      BY <2>1, DirsAreNumbers
  <1>6. SoundStore(sessions, retired)
    BY DEF DInv
  <1>7. /\ \A s \in Sessions : sessions[s].ts = now => cs[s] = sessions[s]
        /\ SoundStore(cs, cr)
        /\ \A d \in Dirs : Stored(cs, d) => Stored(sessions, d) /\ d \notin stale
        /\ \A d \in Dirs : ~Stored(sessions, d) /\ retired[d] = Never =>
             ~Stored(cs, d) /\ d \notin stale /\ cr[d] = Never
        /\ \A d \in Dirs, t \in Nat :
             Lasts(sessions, retired, d, t) /\ t <= now /\ now - t <= TTL =>
               Lasts(cs, cr, d, t) /\ d \notin stale
    BY <1>3, <1>6, CleanupKeeps
  <1> HIDE DEF cs, cr, stale, then
  <1>8. /\ touched.dirs = cs[sid].dirs /\ touched.files = files /\ touched.ts = now
        /\ files \in SUBSET (Dirs \cup {Local})
    BY <1>3, <1>4 DEF Entry
  <1> HIDE DEF touched, files
  <1>9. /\ x \in Request /\ x.pc = "remove" /\ x.sid = sid /\ x.kind = req[r].kind
        /\ x.dir = req[r].dir /\ x.files = files /\ x.stale = stale /\ x.at = now
        /\ x.then = then
    BY <1>3, <1>4, <1>5, <1>8 DEF Request
  <1> HIDE DEF x
  <1>10. /\ sessions'[sid] = touched /\ \A s \in Sessions \ {sid} : sessions'[s] = cs[s]
    BY <1>1, <1>3, <1>4
  <1>11. /\ \A s \in Sessions : /\ sessions'[s].dirs = cs[s].dirs
                               /\ sessions'[s].files = cs[s].files
                               /\ sessions'[s].ts = IF s = sid THEN now ELSE cs[s].ts
    BY <1>8, <1>10 DEF files
  <1>12. \A d : Stored(sessions', d) <=> Stored(cs, d)
    BY <1>11 DEF Stored
  <1>13. SoundStore(sessions', retired')
    BY <1>1, <1>7, <1>11 DEF SoundStore
  <1>14. ASSUME NEW d \in Dirs, Unseen(d)
         PROVE  ~Stored(cs, d) /\ cr[d] = Never /\ d \notin stale /\ d \notin files
    <2>1. ~Stored(cs, d) /\ cr[d] = Never /\ d \notin stale
      BY <1>7, <1>14 DEF Unseen
    <2>2. files \cap Dirs \subseteq cs[sid].dirs
      BY <1>3, <1>7 DEF SoundStore, files
    <2> QED
      BY <1>3, <2>1, <2>2 DEF Stored
  <1>15. ASSUME NEW d \in Dirs, NEW t \in Nat, Lasts(cs, cr, d, t), t <= now
         PROVE  Lasts(sessions', retired', d, t)
    BY <1>1, <1>11, <1>15 DEF Lasts
  <1>16. /\ files \cap Dirs \subseteq sessions'[sid].dirs
         /\ sessions'[sid].ts = now /\ sessions'[sid].files = files
    BY <1>3, <1>7, <1>11 DEF SoundStore, files
  <1>17. \A s \in Sessions \ {sid} : sessions[s].ts = now => sessions'[s] = sessions[s]
    BY <1>7, <1>10
  <1>18. x.kind = "fetch" => x.then # "set"
    BY <1>5, <1>9
  <1>19. \A d \in Dirs : Stored(sessions', d) =>
           (Stored(sessions, d) \/ d = req[r].dir) /\ d \notin x.stale
    BY <1>7, <1>9, <1>12
  <1>20. \A d \in Dirs : Unseen(d) /\ (d = req[r].dir => Keeping(x)) =>
           /\ ~Stored(sessions', d) /\ retired'[d] = Never
           /\ d \notin x.stale /\ d \notin x.files
    BY <1>1, <1>9, <1>12, <1>14
  <1>21. \A d \in Dirs, t \in Nat :
           Lasts(sessions, retired, d, t) /\ t <= now /\ now - t <= TTL =>
             Lasts(sessions', retired', d, t) /\ d \notin x.stale
    BY <1>7, <1>9, <1>15
  <1> QED
    BY <1>1, <1>2, <1>9, <1>13, <1>16, <1>17, <1>18, <1>19, <1>20, <1>21, StoreRewritten

\* The store just before _set_files expires the old sessions.
LEMMA SetFilesSound ==
    ASSUME DInv, NEW r \in Requests, req[r].pc = "set",
           NEW ss, ss = [sessions EXCEPT ![req[r].sid] =
                          [live |-> TRUE, files |-> FilesToSet(r), dirs |-> DirsToSet(r), ts |-> now]],
           NEW rt, rt = [d \in Dirs |-> IF d \in sessions[req[r].sid].dirs \ DirsToSet(r)
                                       THEN now ELSE retired[d]]
    PROVE  /\ ss \in [Sessions -> Entry] /\ rt \in [Dirs -> Nat \cup {Never}]
           /\ SoundStore(ss, rt)
           /\ ss[req[r].sid].ts = now
           /\ \A s \in Sessions \ {req[r].sid} : ss[s] = sessions[s]
           /\ \A d \in Dirs : Stored(ss, d) => Stored(sessions, d) \/ d = req[r].dir
           /\ \A d \in Dirs : Unseen(d) /\ d # req[r].dir => ~Stored(ss, d) /\ rt[d] = Never
           /\ \A d \in Dirs, t \in Nat :
                Lasts(sessions, retired, d, t) /\ t <= now => Lasts(ss, rt, d, t)
  <1> DEFINE sid == req[r].sid
             files == FilesToSet(r)
             dirs == DirsToSet(r)
             entry == [live |-> TRUE, files |-> files, dirs |-> dirs, ts |-> now]
  <1>1. /\ req[r] \in Request /\ sid \in Sessions /\ now \in Nat /\ now # Never
        /\ sessions \in [Sessions -> Entry] /\ retired \in [Dirs -> Nat \cup {Never}]
        /\ sessions[sid] \in Entry
    BY DEF DInv, WInv, TypeOK, Request, Never
  <1>2. SoundStore(sessions, retired)
    BY DEF DInv
  <1>3. /\ req[r].kind \in {"upload", "fetch"} => req[r].dir \in Dirs
        /\ req[r].kind \notin {"upload", "fetch"} => req[r].dir = Local
    BY <1>1 DEF DInv, WInv, KindsOfRequest, Request
  <1>4. req[r].kind = "fetch" => req[r].dirs = sessions[sid].dirs
    BY DEF DInv, ReadsAreFresh, Reading
  <1>5. req[r].kind \in {"fetch", "file"} => req[r].files = sessions[sid].files
    BY DEF DInv, ReadsAreFresh, Reading
  <1>6. sessions[sid].files \cap Dirs \subseteq sessions[sid].dirs
    BY <1>1, <1>2 DEF SoundStore
  <1>7. /\ sessions[sid].dirs \subseteq Dirs
        /\ sessions[sid].files \subseteq Dirs \cup {Local}
    BY <1>1 DEF Entry
  <1>8. dirs \subseteq Dirs /\ dirs \subseteq sessions[sid].dirs \cup {req[r].dir}
    BY <1>3, <1>4, <1>7 DEF DirsToSet
  <1>9. files \subseteq Dirs \cup {Local} /\ files \cap Dirs \subseteq dirs
    BY <1>3, <1>4, <1>5, <1>6, <1>7, DirsAreNumbers DEF FilesToSet, DirsToSet
  <1>10. req[r].dir \in Dirs => Unseen(req[r].dir)
    BY DEF DInv, HandsAreFull, Keeping
  <1> HIDE DEF files, dirs, sid
  <1>11. entry \in Entry /\ entry.dirs = dirs /\ entry.files = files /\ entry.ts = now
    BY <1>1, <1>8, <1>9 DEF Entry
  <1>12. ss = [sessions EXCEPT ![sid] = entry]
    BY DEF sid, files, dirs
  <1>13. rt = [d \in Dirs |-> IF d \in sessions[sid].dirs \ dirs THEN now ELSE retired[d]]
    BY DEF sid, dirs
  <1> HIDE DEF entry
  <1>14. /\ ss \in [Sessions -> Entry] /\ ss[sid] = entry
         /\ \A s \in Sessions \ {sid} : ss[s] = sessions[s]
    BY <1>1, <1>11, <1>12
  <1>15. /\ rt \in [Dirs -> Nat \cup {Never}]
         /\ \A d \in Dirs : rt[d] = IF d \in sessions[sid].dirs \ dirs THEN now ELSE retired[d]
    BY <1>1, <1>13
  <1>16. ASSUME NEW s \in Sessions \ {sid} PROVE sessions[s].dirs \cap dirs = {}
    <2>1. sessions[s].dirs \cap sessions[sid].dirs = {} /\ sessions[s].dirs \subseteq Dirs
      BY <1>1, <1>2, <1>16 DEF SoundStore, Entry
    <2>2. req[r].dir \notin sessions[s].dirs
      BY <1>10, <2>1 DEF Unseen, Stored
    <2> QED
      BY <1>8, <2>1, <2>2
  <1>17. ASSUME NEW s \in Sessions \ {sid}, NEW d \in sessions[s].dirs
         PROVE  rt[d] = Never /\ d \in Dirs
    <2>1. d \in Dirs /\ d \notin sessions[sid].dirs /\ retired[d] = Never
      BY <1>1, <1>2, <1>17 DEF SoundStore, Entry
    <2> QED
      BY <1>15, <2>1
  <1>18. ASSUME NEW d \in dirs PROVE rt[d] = Never
    <2>1. retired[d] = Never
      BY <1>1, <1>2, <1>8, <1>10 DEF SoundStore, Unseen
    <2> QED
      BY <1>8, <1>15, <2>1
  <1>19. SoundStore(ss, rt)
    <2>1. \A s \in Sessions : \A t \in Sessions \ {s} : ss[s].dirs \cap ss[t].dirs = {}
      BY <1>2, <1>11, <1>14, <1>16 DEF SoundStore
    <2>2. \A s \in Sessions : ss[s].files \cap Dirs \subseteq ss[s].dirs
      BY <1>2, <1>9, <1>11, <1>14 DEF SoundStore
    <2>3. \A s \in Sessions : \A d \in ss[s].dirs : rt[d] = Never
      BY <1>11, <1>14, <1>17, <1>18
    <2> QED
      BY <2>1, <2>2, <2>3 DEF SoundStore
  <1>20. ASSUME NEW d \in Dirs, Stored(ss, d) PROVE Stored(sessions, d) \/ d = req[r].dir
    <2>1. PICK s \in Sessions : d \in ss[s].dirs
      BY <1>20 DEF Stored
    <2> QED
      BY <1>1, <1>8, <1>11, <1>14, <2>1 DEF Stored
  <1>21. ASSUME NEW d \in Dirs, Unseen(d), d # req[r].dir PROVE ~Stored(ss, d) /\ rt[d] = Never
    BY <1>1, <1>15, <1>20, <1>21 DEF Unseen, Stored
  <1>22. ASSUME NEW d \in Dirs, NEW t \in Nat, Lasts(sessions, retired, d, t), t <= now
         PROVE  Lasts(ss, rt, d, t)
    <2>1. CASE retired[d] # Never /\ retired[d] >= t
      <3>1. d \notin sessions[sid].dirs
        BY <1>1, <1>2, <2>1 DEF SoundStore
      <3> QED
        BY <1>15, <2>1, <3>1 DEF Lasts
    <2>2. CASE retired[d] = Never /\ \E s \in Sessions : d \in sessions[s].dirs /\ sessions[s].ts >= t
      <3>1. PICK s \in Sessions : d \in sessions[s].dirs /\ sessions[s].ts >= t
        BY <2>2
      <3>2. CASE s # sid
        BY <1>14, <1>17, <3>1, <3>2 DEF Lasts
      <3>3. CASE s = sid /\ d \in dirs
        BY <1>1, <1>11, <1>14, <1>18, <1>22, <3>3 DEF Lasts
      <3>4. CASE s = sid /\ d \notin dirs
        <4>1. rt[d] = now
          BY <1>15, <3>1, <3>4
        <4> QED
          BY <1>1, <1>22, <4>1 DEF Lasts
      <3> QED
        BY <3>2, <3>3, <3>4
    <2> QED
      BY <1>22, <2>1, <2>2 DEF Lasts
  <1> QED
    BY <1>11, <1>14, <1>15, <1>19, <1>20, <1>21, <1>22 DEF sid

LEMMA SetFilesStays ==
    ASSUME DInv, WInv', ReadersAreAlone, NEW r \in Requests, SetFiles(r) PROVE DInv'
  <1> DEFINE sid == req[r].sid
             entry == [live |-> TRUE, files |-> FilesToSet(r), dirs |-> DirsToSet(r), ts |-> now]
             ss == [sessions EXCEPT ![sid] = entry]
             rt == [d \in Dirs |-> IF d \in sessions[sid].dirs \ DirsToSet(r)
                                   THEN now ELSE retired[d]]
             cs == CleanupSessions(ss)
             cr == CleanupRetired(ss, rt)
             stale == Stale(ss, rt)
             x == [req[r] EXCEPT !.stale = stale, !.pc = "remove", !.then = "idle"]
  <1>1. /\ sessions' = cs /\ retired' = cr
        /\ req[r].pc = "set" /\ UNCHANGED << now, made, disk >>
    BY DEF SetFiles, At
  <1>2. req' = [req EXCEPT ![r] = x]
    BY DEF SetFiles
  <1>3. req[r] \in Request /\ sid \in Sessions /\ now \in Nat
    BY DEF DInv, WInv, TypeOK, Request
  <1>4. /\ ss \in [Sessions -> Entry] /\ rt \in [Dirs -> Nat \cup {Never}]
        /\ SoundStore(ss, rt)
        /\ ss[sid].ts = now
        /\ \A s \in Sessions \ {sid} : ss[s] = sessions[s]
        /\ \A d \in Dirs : Stored(ss, d) => Stored(sessions, d) \/ d = req[r].dir
        /\ \A d \in Dirs : Unseen(d) /\ d # req[r].dir => ~Stored(ss, d) /\ rt[d] = Never
        /\ \A d \in Dirs, t \in Nat :
             Lasts(sessions, retired, d, t) /\ t <= now => Lasts(ss, rt, d, t)
    BY <1>1, SetFilesSound
  <1> HIDE DEF ss, rt
  <1>5. /\ \A s \in Sessions : ss[s].ts = now => cs[s] = ss[s]
        /\ SoundStore(cs, cr)
        /\ \A d \in Dirs : Stored(cs, d) => Stored(ss, d) /\ d \notin stale
        /\ \A d \in Dirs : ~Stored(ss, d) /\ rt[d] = Never =>
             ~Stored(cs, d) /\ d \notin stale /\ cr[d] = Never
        /\ \A d \in Dirs, t \in Nat :
             Lasts(ss, rt, d, t) /\ t <= now /\ now - t <= TTL =>
               Lasts(cs, cr, d, t) /\ d \notin stale
    BY <1>3, <1>4, CleanupKeeps
  <1>6. stale \subseteq Dirs
    BY DEF Stale
  <1> HIDE DEF cs, cr, stale
  <1>7. /\ x \in Request /\ x.pc = "remove" /\ x.sid = sid /\ x.kind = req[r].kind
        /\ x.dir = req[r].dir /\ x.files = req[r].files /\ x.stale = stale /\ x.then = "idle"
    BY <1>3, <1>6 DEF Request
  <1> HIDE DEF x
  <1>8. ~Keeping(x) /\ ~Reading(x) /\ ~Finding(x)
    BY <1>7 DEF Keeping, Reading, Finding
  <1>9. \A d \in Dirs : Stored(sessions', d) =>
          (Stored(sessions, d) \/ d = req[r].dir) /\ d \notin x.stale
    BY <1>1, <1>4, <1>5, <1>7
  <1>10. \A d \in Dirs : Unseen(d) /\ (d = req[r].dir => Keeping(x)) =>
           /\ ~Stored(sessions', d) /\ retired'[d] = Never
           /\ d \notin x.stale /\ d \notin x.files
    <2> SUFFICES ASSUME NEW d \in Dirs, Unseen(d), d # req[r].dir
                 PROVE  /\ ~Stored(sessions', d) /\ retired'[d] = Never
                        /\ d \notin x.stale /\ d \notin x.files
      BY <1>8
    <2>1. ~Stored(cs, d) /\ d \notin stale /\ cr[d] = Never
      BY <1>4, <1>5
    <2> QED
      BY <1>1, <1>7, <2>1 DEF Unseen
  <1>11. \A d \in Dirs, t \in Nat :
           Lasts(sessions, retired, d, t) /\ t <= now /\ now - t <= TTL =>
             Lasts(sessions', retired', d, t) /\ d \notin x.stale
    BY <1>1, <1>4, <1>5, <1>7
  <1>12. \A s \in Sessions \ {sid} : sessions[s].ts = now => sessions'[s] = sessions[s]
    BY <1>1, <1>4, <1>5
  <1>13. SoundStore(sessions', retired')
    BY <1>1, <1>5
  <1> QED
    BY <1>1, <1>2, <1>7, <1>8, <1>9, <1>10, <1>11, <1>12, <1>13, StoreRewritten

LEMMA NextStays == ReadersAreAlone => (DInv /\ [Next]_vars => DInv')
  <1> SUFFICES ASSUME ReadersAreAlone, DInv, [Next]_vars PROVE DInv'
    OBVIOUS
  <1>1. WInv'
    BY NextPreserves DEF DInv
  <1>2. ASSUME NEW r \in Requests, Handle(r) PROVE DInv'
    BY <1>1, <1>2, WorkDoneQuiet, WorkFailsQuiet, GetFilesStays, ReadUploadDirsQuiet,
       SetFilesStays, RemoveUploadDirsQuiet, ReadFoundQuiet DEF Handle
  <1>3. ASSUME NEW r \in Requests, NEW k \in Kinds, NEW s \in Sessions, Begin(r, k, s)
        PROVE  DInv'
    BY <1>1, <1>3, BeginOwn
  <1>4. CASE Tick
    BY <1>1, <1>4, TickStays
  <1>5. CASE UNCHANGED vars
    <2>1. NumbersAreMade' /\ HandsAreFull' /\ SoundStore(sessions', retired')
      BY <1>5 DEF vars, DInv, NumbersAreMade, HandsAreFull, SoundStore, Unseen, Stored
    <2>2. StoreStays' /\ Alone' /\ ReadsAreFresh'
      BY <1>5 DEF vars, DInv, StoreStays, Alone, ReadsAreFresh, Stored
    <2>3. FoundStays' /\ FetchReadsBoth'
      BY <1>5 DEF vars, DInv, FoundStays, FetchReadsBoth, Lasts
    <2> QED
      BY <1>1, <2>1, <2>2, <2>3 DEF DInv
  <1> QED
    BY <1>2, <1>3, <1>4, <1>5 DEF Next

(* What a session lists is on disk, and what a request has found it can    *)
(* open for as long as the TTL, however uploads, path analyses and previews *)
(* of one session overlap, whenever sessions expire and whichever request  *)
(* fails (_get_files, _set_files, _cleanup_expired_sessions and their      *)
(* callers).  The hypothesis cannot be dropped: a fetch or an added file   *)
(* writes back the list it has read.                                       *)
THEOREM ListedIsThere == ASSUME ReadersAreAlone PROVE Spec => []DownloadsStay
  <1>1. DInv => DownloadsStay
    <2> SUFFICES ASSUME DInv PROVE DownloadsStay
      OBVIOUS
    <2>1. ASSUME NEW s \in Sessions, NEW f \in sessions[s].files \cap Dirs
          PROVE  f \in disk /\ f \in sessions[s].dirs /\ retired[f] = Never
      <3>1. f \in sessions[s].dirs /\ retired[f] = Never
        BY <2>1 DEF DInv, SoundStore
      <3> QED
        BY <3>1 DEF DInv, StoreStays, Stored
    <2>2. ASSUME NEW r \in Requests, At(r, "found"), now - req[r].at <= TTL
          PROVE  req[r].files \cap Dirs \subseteq disk
      BY <2>2 DEF DInv, FoundStays, Finding, At
    <2> QED
      BY <2>1, <2>2 DEF DownloadsStay
  <1>2. DInv /\ [Next]_vars => DInv'
    BY NextStays
  <1> QED
    BY <1>1, <1>2, InitDInv, PTL DEF Spec
=============================================================================
