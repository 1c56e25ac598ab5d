--------------------------- MODULE MCBlockOverlay ---------------------------
(* Instances of BlockOverlay and OverlayExtents for TLC: lease holders are
   interchangeable.  All data are written, so exchanging the two bytes at a
   position maps behaviours to behaviours and one base image stands for all. *)
EXTENDS OverlayExtents

Sym == Permutations(Holder)
Stripes == {[p \in 0..(Size - 1) |-> p % 2]}

\* Leases touch no data and snapshots share whole chunks, so that leases are
\* combined with chunks of one byte and snapshots with chunks of two.
Snapshots == <<0, 2>>
Leases == <<2, 0>>

=============================================================================
