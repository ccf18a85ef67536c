--------------------------- MODULE MCCacheSnapshot --------------------------
(***************************************************************************)
(* Instances of CacheSnapshot: which file operations may fail.             *)
(***************************************************************************)
EXTENDS CacheSnapshot

AllFaults == Operations

=============================================================================
