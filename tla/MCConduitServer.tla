--------------------------- MODULE MCConduitServer ---------------------------
(* ConduitServer on a small instance.  Every deadline, every moment of the *)
(* cancellation and every interleaving of the parties is explored.         *)
EXTENDS ConduitServer

=============================================================================
