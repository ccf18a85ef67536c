--------------------------- MODULE MCMemoryCache ----------------------------
(***************************************************************************)
(* Instances of MemoryCache.  The longest body fits no limit; 0 is no      *)
(* limit.                                                                  *)
(***************************************************************************)
EXTENDS MemoryCache

BodyLengths == {1, 2, 4}
SomeLimits == {0, 2, 3}
=============================================================================
