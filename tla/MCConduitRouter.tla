--------------------------- MODULE MCConduitRouter ---------------------------
(* ConduitRouter on a small instance.                                      *)
EXTENDS ConduitRouter

CONSTANTS s1, s2, d1, d2

=============================================================================
