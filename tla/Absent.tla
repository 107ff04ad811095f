------------------------------- MODULE Absent -------------------------------
(***************************************************************************)
(* None stands for the absent value of the sources: a NULL column, a row   *)
(* that does not exist, Python's None, a key that is not in the cache.     *)
(* Modules that are checked side by side share it.                         *)
(***************************************************************************)
CONSTANT None
=============================================================================
