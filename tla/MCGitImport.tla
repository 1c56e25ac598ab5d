----------------------------- MODULE MCGitImport ----------------------------
(* Instances of GitImport for TLC. *)
EXTENDS GitImport

=============================================================================
