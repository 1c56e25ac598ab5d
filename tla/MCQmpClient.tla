---------------------------- MODULE MCQmpClient -----------------------------
(* Instances of QmpClient for TLC. *)
EXTENDS QmpClient

=============================================================================
