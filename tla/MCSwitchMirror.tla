--------------------------- MODULE MCSwitchMirror ---------------------------
(***************************************************************************)
(* EthernetSwitch and MirrorCache for TLC, in one run.  They share nothing *)
(* and run whole: a behaviour moves one of them and leaves the other as it *)
(* began, so that the run has the states of both and not their product.    *)
(***************************************************************************)
EXTENDS EthernetSwitch, MCMirrorCache

SwitchMoves == Init /\ SwitchNext /\ UNCHANGED vars
MirrorMoves == SwitchInit /\ Next /\ UNCHANGED switchVars

EitherInit == SwitchInit /\ Init
EitherNext == SwitchMoves \/ MirrorMoves
EitherSpec == EitherInit /\ [][EitherNext]_<<switchVars, vars>>

=============================================================================
