---------------------------- MODULE MCByteCache -----------------------------
EXTENDS ByteCache, TLC
CONSTANTS k1, k2, k3, k4
\* Two keys that fit together, one that pushes both out, one that never fits.
Sizes == (k1 :> 1) @@ (k2 :> 1) @@ (k3 :> 2) @@ (k4 :> 3)
=============================================================================
