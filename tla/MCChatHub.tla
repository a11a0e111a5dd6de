----------------------------- MODULE MCChatHub -----------------------------
(* ChatHub on a small instance.                                            *)
EXTENDS ChatHub

=============================================================================
