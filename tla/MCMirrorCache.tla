--------------------------- MODULE MCMirrorCache ----------------------------
(* Instances of MirrorCache for TLC. *)
EXTENDS MirrorCache, TLC

CONSTANTS o1, o2, o3

OneCache == [o \in Opener |-> CHOOSE c \in Cache : TRUE]
OwnCache == [o \in Opener |-> o]

\* The size one caller has is right, another has a stale one, a third none.
Sizes == (o1 :> Length @@ o2 :> Length + 1 @@ o3 :> -1)
RightSizes == [o \in Opener |-> Length]

=============================================================================
