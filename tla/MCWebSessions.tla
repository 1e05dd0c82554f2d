--------------------------- MODULE MCWebSessions ---------------------------
(* Symmetric sessions and request threads for WebSessions.                 *)
EXTENDS WebSessions, TLC

Threads == Permutations(Requests)
=============================================================================
