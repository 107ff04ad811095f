--------------------------- MODULE MC_BrowserShell ---------------------------
(* BrowserShell for TLC: handles, threads and logins are interchangeable.  *)
EXTENDS BrowserShell, TLC

Interchangeable == Permutations(Handles) \cup Permutations(Callers) \cup Permutations(Logins)
=============================================================================
