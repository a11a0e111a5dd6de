-------------------------- MODULE MCGrpcTransport --------------------------
(* GrpcTransport on a small instance.                                      *)
EXTENDS GrpcTransport

=============================================================================
