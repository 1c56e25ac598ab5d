---------------------------- MODULE MCNbdServer -----------------------------
(* Instances of NbdServer for TLC. *)
EXTENDS NbdServer

=============================================================================
