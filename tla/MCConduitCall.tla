---------------------------- MODULE MCConduitCall ----------------------------
(* ConduitCall on a small instance: one client, one server, one call.      *)
EXTENDS ConduitCall

=============================================================================
