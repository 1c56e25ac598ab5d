----------------------------- MODULE MCVcpuLoop -----------------------------
(* Instances of VcpuLoop for TLC. *)
EXTENDS VcpuLoop

=============================================================================
