--------------------------- MODULE MCCompensator ---------------------------
(* Tokens are interchangeable, and no liveness is checked. *)
EXTENDS Compensator, TLC

Symmetry == Permutations(Token)

============================================================================
