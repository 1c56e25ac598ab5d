------------------------------ MODULE FlatDisk ------------------------------
(***************************************************************************)
(* What a copy-on-write overlay promises to the machine that uses it and   *)
(* to the holders of its snapshots: a disk that writes change until it is  *)
(* sealed, and snapshots that never change.                                *)
(***************************************************************************)
EXTENDS Naturals, Sequences

CONSTANTS Position, Byte

VARIABLES disk, frozen, sealed

vars == <<disk, frozen, sealed>>

Init ==
    /\ disk \in [Position -> Byte]
    /\ frozen = <<>>
    /\ sealed = FALSE

Change ==
    /\ ~sealed
    /\ disk' \in [Position -> Byte]
    /\ UNCHANGED <<frozen, sealed>>

Freeze ==
    /\ ~sealed
    /\ frozen' = Append(frozen, disk)
    /\ UNCHANGED <<disk, sealed>>

Seal ==
    /\ sealed' = TRUE
    /\ UNCHANGED <<disk, frozen>>

Next == Change \/ Freeze \/ Seal

Spec == Init /\ [][Next]_vars
=============================================================================
