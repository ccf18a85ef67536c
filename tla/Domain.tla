-------------------------------- MODULE Domain -------------------------------
(***************************************************************************)
(* What the values of internal/domain have in common.                      *)
(***************************************************************************)
CONSTANTS
  Nil,   \* a nil pointer, an absent field, or an unset variable
  Error  \* the outcome of a call that fails
=============================================================================
