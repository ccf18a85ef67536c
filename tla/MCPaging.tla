------------------------------ MODULE MCPaging -------------------------------
(***************************************************************************)
(* Instances of Paging with ints from -8 to 7.                             *)
(***************************************************************************)
EXTENDS Paging

SmallLimits == {-1, 0, 1, 3, 4}
AllLimits == IntValue
SomeOffsets == {-8, 0, 1, 3, 7}
=============================================================================
