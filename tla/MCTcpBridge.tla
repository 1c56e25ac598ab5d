----------------------------- MODULE MCTcpBridge ----------------------------
(* Instances of TcpBridge for TLC. *)
EXTENDS TcpBridge

=============================================================================
