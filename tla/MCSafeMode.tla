----------------------------- MODULE MCSafeMode -----------------------------
(***************************************************************************)
(* The instance of SafeModeNotices: coroutines are interchangeable.        *)
(***************************************************************************)
EXTENDS SafeModeNotices, TLC

Symmetry == Permutations(Call)
=============================================================================
