--------------------------- MODULE MCKdTransport ----------------------------
(* Instances of KdTransport for TLC. *)
EXTENDS KdTransport

=============================================================================
