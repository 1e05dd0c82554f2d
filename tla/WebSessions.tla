---------------------------- MODULE WebSessions ----------------------------
(***************************************************************************)
(* The per-session file store of the web server (web_gui.py).  Flask runs  *)
(* requests in threads; _sessions_lock is held inside each helper and      *)
(* never across two of them, so a handler that reads the store, works and  *)
(* writes it back takes several steps.  Uploads, public downloads and      *)
(* Azure downloads live in directories of their own, which the store       *)
(* retains, retires when they are replaced, and removes after the TTL.     *)
(*                                                                         *)
(* A directory is a number; the file downloaded into it goes by the same   *)
(* number.  Files analyzed in place have no directory: Local.              *)
(***************************************************************************)
EXTENDS Integers, FiniteSets

CONSTANTS
    Sessions,       \* browser sessions
    Requests,       \* request threads
    Overlapping,    \* kinds of request that may overlap within one session
    TTL,            \* _session_ttl, in ticks
    MaxTime,        \* bound: ticks
    MaxDirs         \* bound: directories made

Kinds == {"upload", "fetch", "paths", "file", "find"}
Dirs == 1 .. MaxDirs
Local == 0
Never == -1

ASSUME SessionsAssumption == Sessions # {} /\ Overlapping \subseteq Kinds
ASSUME BoundsAssumption == TTL \in Nat /\ MaxTime \in Nat /\ MaxDirs \in Nat

VARIABLES
    now,        \* time.time()
    sessions,   \* _sessions, with live = FALSE for "no entry"
    retired,    \* _retired_upload_dirs: when, or Never
    disk,       \* the batch_ directories that exist
    made,       \* how many were ever made
    req         \* the requests in progress

vars == << now, sessions, retired, disk, made, req >>

NoEntry == [live |-> FALSE, files |-> {}, dirs |-> {}, ts |-> 0]
Idle == [pc |-> "idle", kind |-> "find", sid |-> CHOOSE s \in Sessions : TRUE,
         dir |-> Local, files |-> {}, dirs |-> {}, stale |-> {}, at |-> 0,
         then |-> "idle"]

Init ==
    /\ now = 0 /\ made = 0 /\ disk = {}
    /\ sessions = [s \in Sessions |-> NoEntry]
    /\ retired = [d \in Dirs |-> Never]
    /\ req = [r \in Requests |-> Idle]

-----------------------------------------------------------------------------
(* Helpers called with the lock held.  The store after                     *)
(* _cleanup_expired_sessions, and the directories it hands to its caller.  *)

Expired(ss) == {s \in Sessions : ss[s].live /\ now - ss[s].ts > TTL}

Min2(a, b) == IF a < b THEN a ELSE b

RetiredByExpiry(ss, rt) ==
    [d \in Dirs |->
       IF \E s \in Expired(ss) : d \in ss[s].dirs
         THEN LET s == CHOOSE x \in Expired(ss) : d \in ss[x].dirs
              IN Min2(IF rt[d] = Never THEN now ELSE rt[d], ss[s].ts)
         ELSE rt[d]]

\* A retired directory goes with the next request.
StaleAtOnce(ss, rt) == {d \in Dirs : RetiredByExpiry(ss, rt)[d] # Never}

Stale(ss, rt) == {d \in Dirs : /\ RetiredByExpiry(ss, rt)[d] # Never
                               /\ now - RetiredByExpiry(ss, rt)[d] > TTL}

CleanupRetired(ss, rt) ==
    [d \in Dirs |-> IF d \in Stale(ss, rt) THEN Never ELSE RetiredByExpiry(ss, rt)[d]]

CleanupSessions(ss) == [s \in Sessions |-> IF s \in Expired(ss) THEN NoEntry ELSE ss[s]]

-----------------------------------------------------------------------------

At(r, pc) == req[r].pc = pc

\* A request that may overlap nothing has its session to itself.
MayBegin(kind, sid) ==
    \A q \in Requests : req[q].pc # "idle" /\ req[q].sid = sid =>
                          kind \in Overlapping /\ req[q].kind \in Overlapping

\* upload_files, analyze_upload; azure_analyze, public_dataset_fetch;
\* analyze_files, analyze_folder; analyze_single_file; the preview routes.
Begin(r, kind, sid) ==
    /\ At(r, "idle") /\ MayBegin(kind, sid)
    /\ IF kind \in {"upload", "fetch"}
         THEN /\ made < MaxDirs /\ made' = made + 1
              /\ disk' = disk \cup {made + 1}     \* _new_upload_dir
         ELSE UNCHANGED << made, disk >>
    /\ req' = [req EXCEPT ![r] =
                [Idle EXCEPT !.kind = kind, !.sid = sid,
                             !.dir = IF kind \in {"upload", "fetch"} THEN made + 1 ELSE Local,
                             !.pc = IF kind = "find" THEN "get" ELSE "work"]]
    /\ UNCHANGED << now, sessions, retired >>

\* The download or the analysis succeeds.  A file that cannot be analyzed is
\* listed as an error, so an upload of named files always gets here.
WorkDone(r) ==
    /\ At(r, "work")
    /\ req' = [req EXCEPT ![r].pc = IF req[r].kind \in {"upload", "paths"} THEN "set" ELSE "get"]
    /\ UNCHANGED << now, sessions, retired, disk, made >>

\* A failed upload leaves its directory.
WorkFailsLeaving(r) ==
    /\ At(r, "work")
    /\ req' = [req EXCEPT ![r] = Idle]
    /\ UNCHANGED << now, sessions, retired, disk, made >>

\* No named file, a failed download, or any exception: the directory goes.
WorkFails(r) ==
    /\ At(r, "work")
    /\ disk' = disk \ {req[r].dir}
    /\ req' = [req EXCEPT ![r] = Idle]
    /\ UNCHANGED << now, sessions, retired, made >>

\* _get_files: expire, make or touch the entry, copy its files.
GetFiles(r) ==
    LET sid == req[r].sid
        kept == CleanupSessions(sessions)[sid]
    IN /\ At(r, "get")
       /\ sessions' = [CleanupSessions(sessions) EXCEPT
                         ![sid] = [kept EXCEPT !.live = TRUE, !.ts = now]]
       /\ retired' = CleanupRetired(sessions, retired)
       /\ req' = [req EXCEPT ![r].files = kept.files, ![r].at = now,
                             ![r].stale = Stale(sessions, retired),
                             ![r].pc = "remove",
                             ![r].then = CASE req[r].kind = "fetch" -> "dirs"
                                           [] req[r].kind = "file" -> "set"
                                           [] OTHER -> "found"]
       /\ UNCHANGED << now, disk, made >>

\* _session_upload_dirs: a second critical section.
ReadUploadDirs(r) ==
    /\ At(r, "dirs")
    /\ req' = [req EXCEPT ![r].dirs = sessions[req[r].sid].dirs, ![r].pc = "set"]
    /\ UNCHANGED << now, sessions, retired, disk, made >>

\* What each handler passes to _set_files.
FilesToSet(r) == CASE req[r].kind = "upload" -> {req[r].dir}
                   [] req[r].kind = "fetch" -> req[r].files \cup {req[r].dir}
                   [] req[r].kind = "file" -> req[r].files \cup {Local}
                   [] OTHER -> {Local}
DirsToSet(r) == CASE req[r].kind = "upload" -> {req[r].dir}
                  [] req[r].kind = "fetch" -> req[r].dirs \cup {req[r].dir}
                  [] req[r].kind = "file" -> sessions[req[r].sid].dirs
                  [] OTHER -> {}

\* _set_files: retire what is not retained, replace the entry, expire.
SetFiles(r) ==
    LET sid == req[r].sid
        replaced == sessions[sid].dirs \ DirsToSet(r)
        ss == [sessions EXCEPT ![sid] = [live |-> TRUE, files |-> FilesToSet(r),
                                         dirs |-> DirsToSet(r), ts |-> now]]
        rt == [d \in Dirs |-> IF d \in replaced THEN now ELSE retired[d]]
    IN /\ At(r, "set")
       /\ sessions' = CleanupSessions(ss)
       /\ retired' = CleanupRetired(ss, rt)
       /\ req' = [req EXCEPT ![r].stale = Stale(ss, rt), ![r].pc = "remove", ![r].then = "idle"]
       /\ UNCHANGED << now, disk, made >>

\* _remove_upload_dirs, after the lock is released.
RemoveUploadDirs(r) ==
    /\ At(r, "remove")
    /\ disk' = disk \ req[r].stale
    /\ req' = [req EXCEPT ![r] = IF req[r].then = "idle" THEN Idle
                                 ELSE [req[r] EXCEPT !.pc = req[r].then, !.stale = {}]]
    /\ UNCHANGED << now, sessions, retired, made >>

\* preview_table and the others open the file that _find_file_data named.
ReadFound(r) ==
    /\ At(r, "found")
    /\ req' = [req EXCEPT ![r] = Idle]
    /\ UNCHANGED << now, sessions, retired, disk, made >>

\* Time passes, but not between the reads of the store and the write that
\* follows them in the same expression.
Tick ==
    /\ now < MaxTime /\ now' = now + 1
    /\ \A r \in Requests : req[r].kind \in {"fetch", "file"} =>
                             req[r].pc \notin {"remove", "dirs", "set"}
    /\ UNCHANGED << sessions, retired, disk, made, req >>

Handle(r) == \/ WorkDone(r) \/ WorkFails(r) \/ GetFiles(r) \/ ReadUploadDirs(r)
             \/ SetFiles(r) \/ RemoveUploadDirs(r) \/ ReadFound(r)

Next == \/ \E r \in Requests : \/ Handle(r)
                               \/ \E k \in Kinds, s \in Sessions : Begin(r, k, s)
        \/ Tick

Spec == Init /\ [][Next]_vars

-----------------------------------------------------------------------------
(* Properties.                                                             *)

Busy(r) == req[r].pc # "idle"

Request == [pc : {"idle", "work", "get", "dirs", "set", "remove", "found"},
            kind : Kinds, sid : Sessions, dir : Dirs \cup {Local},
            files : SUBSET (Dirs \cup {Local}), dirs : SUBSET Dirs, stale : SUBSET Dirs,
            at : Nat, then : {"idle", "dirs", "set", "found"}]
Entry == [live : BOOLEAN, files : SUBSET (Dirs \cup {Local}), dirs : SUBSET Dirs, ts : Nat]

TypeOK ==
    /\ now \in Nat /\ made \in 0 .. MaxDirs /\ disk \subseteq Dirs
    /\ sessions \in [Sessions -> Entry]
    /\ retired \in [Dirs -> Nat \cup {Never}]
    /\ req \in [Requests -> Request]

(* What can be clicked can be opened.  Every downloaded file a session     *)
(* lists is on disk, in a directory the session retains and nobody has     *)
(* retired; and a request that found a file can open it for as long as the *)
(* TTL, even if another request of the session replaces the list in the    *)
(* meantime or the session expires: directories are retired, not removed,  *)
(* and an expired session's count from its last use (_get_files,           *)
(* _set_files, _cleanup_expired_sessions).                                 *)
DownloadsStay ==
    /\ \A s \in Sessions : \A f \in sessions[s].files \cap Dirs :
         f \in disk /\ f \in sessions[s].dirs /\ retired[f] = Never
    /\ \A r \in Requests :
         At(r, "found") /\ now - req[r].at <= TTL => req[r].files \cap Dirs \subseteq disk

(* No directory is leaked: each one on disk belongs to a session, is       *)
(* retired and so will be removed, or is in the hands of a request.        *)
NoDirectoryIsLost ==
    \A d \in disk : \/ \E s \in Sessions : d \in sessions[s].dirs
                    \/ retired[d] # Never
                    \/ \E r \in Requests : Busy(r) /\ (req[r].dir = d \/ d \in req[r].stale)
=============================================================================
